---- MODULE Spec2Model ----
(***************************************************************************)
(* Verification model of the deep-research engine: the research memory     *)
(* (memory.py), the auto tuner (auto_tuning.py), the progress counters     *)
(* (progress.py), the orchestration engine (engine.py) and the public      *)
(* entry point (api.py).                                                   *)
(*                                                                         *)
(* Strings that the code only compares or searches for keywords (learnings,*)
(* scraped contents) are tuples of lower-case word tokens; `kw in text` is *)
(* token membership.  A thought is a record [kind, a, b]: kind is the      *)
(* message template, a and b the learnings the message quotes (<<>> when   *)
(* it quotes none); the wall-clock prefix of a thought is not kept.        *)
(***************************************************************************)
EXTENDS Integers, Sequences, FiniteSets, TLC

VARIABLES
    memory,      \* ResearchMemory of the engine (record of its six containers)
    progress,    \* ResearchProgress of the engine, or None
    auto_tuner,  \* AutoTuner of the engine, or None
    engine,      \* the engine's auto_tune flag, the arguments of its run (query,
                 \* depth_arg, breadth_arg), and the run's state and counters
    stack,       \* call stack of execute_research_iteration frames
    pc,          \* position of the one thread of control
    result,      \* what api.deep_research / ResearchEngine.deep_research handed back
    calls        \* observation: how many external calls of each kind were made

vars == <<memory, progress, auto_tuner, engine, stack, pc, result, calls>>

\* Python's None: -1 where an optional integer is kept, NoObject where an
\* optional object (the progress tracker, the auto tuner) is kept
None == -1

NoObject == [none |-> TRUE]

(***************************************************************************)
(* Small helpers on sequences.                                             *)
(***************************************************************************)
Range(s) == {s[i] : i \in 1..Len(s)}

InSeq(x, s) == \E i \in 1..Len(s) : s[i] = x

IsPrefix(s, t) == Len(s) <= Len(t) /\ \A i \in 1..Len(s) : s[i] = t[i]

NoDup(s) == \A i, j \in 1..Len(s) : s[i] = s[j] => i = j

Take(s, n) == SubSeq(s, 1, IF n < Len(s) THEN n ELSE Len(s))

Min(a, b) == IF a < b THEN a ELSE b

Max(a, b) == IF a > b THEN a ELSE b

\* all sequences without repetition over the set S, of length at most n
RECURSIVE SeqsUpTo(_, _)
SeqsUpTo(S, n) ==
    IF n = 0 THEN {<<>>}
    ELSE LET shorter == SeqsUpTo(S, n - 1)
         IN  shorter \cup {Append(s, x) : s \in shorter, x \in S}

(***************************************************************************)
(* ResearchMemory (memory.py).                                             *)
(***************************************************************************)
NoText == <<>>

Thought(kind) == [kind |-> kind, a |-> NoText, b |-> NoText]

MemoryInit ==
    [learnings          |-> <<>>,
     visited_urls       |-> <<>>,
     chain_of_thought   |-> <<>>,
     information_map    |-> <<>>,
     contradictions     |-> <<>>,
     source_evaluations |-> <<>>]

\* a plausible slip: the membership test of add_learning is dropped
add_learning_nocheck(mem, learning) ==
    [mem EXCEPT !.learnings = Append(@, learning)]

add_learning(mem, learning) ==
    IF ~InSeq(learning, mem.learnings)
    THEN [mem EXCEPT !.learnings = Append(@, learning)]
    ELSE mem

RECURSIVE add_learnings(_, _)
add_learnings(mem, new_learnings) ==
    IF new_learnings = <<>> THEN mem
    ELSE add_learnings(add_learning(mem, Head(new_learnings)), Tail(new_learnings))

\* a plausible slip: the newest URL is put first instead of last
add_url_front(mem, url) ==
    IF ~InSeq(url, mem.visited_urls)
    THEN [mem EXCEPT !.visited_urls = <<url>> \o @]
    ELSE mem

add_url(mem, url) ==
    IF ~InSeq(url, mem.visited_urls)
    THEN [mem EXCEPT !.visited_urls = Append(@, url)]
    ELSE mem

RECURSIVE add_urls(_, _)
add_urls(mem, new_urls) ==
    IF new_urls = <<>> THEN mem
    ELSE add_urls(add_url(mem, Head(new_urls)), Tail(new_urls))

add_thought(mem, thought) ==
    [mem EXCEPT !.chain_of_thought = Append(@, thought)]

\* thoughts added one after the other
RECURSIVE add_thoughts(_, _)
add_thoughts(mem, thoughts) ==
    IF thoughts = <<>> THEN mem
    ELSE add_thoughts(add_thought(mem, Head(thoughts)), Tail(thoughts))

Contradiction(topic, claim1, claim2) ==
    [topic |-> topic, claim1 |-> claim1, claim2 |-> claim2,
     source1 |-> "", source2 |-> ""]

\* a plausible slip: a contradiction already recorded is not recorded again
add_contradiction_once(mem, topic, claim1, claim2) ==
    IF InSeq(Contradiction(topic, claim1, claim2), mem.contradictions) THEN mem
    ELSE add_thought(
            [mem EXCEPT !.contradictions = Append(@, Contradiction(topic, claim1, claim2))],
            [kind |-> "Contradiction detected in topic " \o topic, a |-> claim1, b |-> claim2])

add_contradiction(mem, topic, claim1, claim2) ==
    add_thought(
        [mem EXCEPT !.contradictions = Append(@, Contradiction(topic, claim1, claim2))],
        [kind |-> "Contradiction detected in topic " \o topic, a |-> claim1, b |-> claim2])

add_source_evaluation(mem, evaluation) ==
    [mem EXCEPT !.source_evaluations = Append(@, evaluation)]

InfoKinds == {"consensus", "contradictions", "gaps"}

EmptyTopic == [consensus |-> <<>>, contradictions |-> <<>>, gaps |-> <<>>]

\* content is a list (extend) when isList, a scalar (append) otherwise
update_information_map(mem, topic, info_type, content, isList) ==
    LET m0 == mem.information_map
        m1 == IF topic \in DOMAIN m0 THEN m0
              ELSE [t \in (DOMAIN m0) \cup {topic} |->
                        IF t = topic THEN EmptyTopic ELSE m0[t]]
        m2 == IF info_type \in InfoKinds
              THEN [m1 EXCEPT ![topic][info_type] =
                        IF isList THEN @ \o content ELSE Append(@, content)]
              ELSE m1
    IN  [mem EXCEPT !.information_map = m2]

(***************************************************************************)
(* AutoTuner (auto_tuning.py).  Fractions are pairs <<numerator,           *)
(* denominator>> with a positive denominator, compared by cross            *)
(* multiplication, so that the thresholds 0.3 and 0.7 are exact.           *)
(***************************************************************************)
LessThan(r, n, d) == r[1] * d < n * r[2]

GreaterThan(r, n, d) == r[1] * d > n * r[2]

\* Python's round() of the non-negative fraction p/q: ties go to the even integer
RoundHalfEven(p, q) ==
    LET f == p \div q
        r == p % q
    IN  IF 2 * r < q THEN f
        ELSE IF 2 * r > q THEN f + 1
        ELSE IF f % 2 = 0 THEN f ELSE f + 1

AutoTunerInit(max_depth, max_breadth, time_budget_seconds) ==
    [max_depth           |-> max_depth,
     max_breadth         |-> max_breadth,
     time_budget_seconds |-> time_budget_seconds,
     start_time          |-> None]

\* A query is known by what the patterns of analyze_question_complexity count
\* in it: [entities, aspects, keywords].  The score is returned in hundredths.
analyze_question_complexity(query) ==
    Min(100, 5 * query.entities + 3 * query.aspects + 7 * query.keywords)

\* a plausible slip: the score is scaled by the cap itself and the result is
\* not clamped
determine_initial_parameters_unclamped(tuner, score) ==
    [depth   |-> RoundHalfEven(100 + score * tuner.max_depth, 100),
     breadth |-> RoundHalfEven(200 + score * tuner.max_breadth, 100)]

determine_initial_parameters(tuner, score) ==
    [depth   |-> Max(1, Min(tuner.max_depth,
                    RoundHalfEven(100 + score * (tuner.max_depth - 1), 100))),
     breadth |-> Max(2, Min(tuner.max_breadth,
                    RoundHalfEven(200 + score * (tuner.max_breadth - 2), 100)))]

\* a plausible slip: the adjusted values are returned without the clamp
tuner_adjust_parameters_unclamped(tuner, current_depth, current_breadth, info_quality, time_usage_fraction) ==
    LET base_d == IF LessThan(info_quality, 3, 10) THEN 1
                  ELSE IF GreaterThan(info_quality, 7, 10) THEN -1 ELSE 0
        base_b == IF LessThan(info_quality, 3, 10) THEN 2
                  ELSE IF GreaterThan(info_quality, 7, 10) THEN -1 ELSE 1
        late   == GreaterThan(time_usage_fraction, 7, 10)
    IN  [depth   |-> current_depth + (IF late THEN base_d - 1 ELSE base_d),
         breadth |-> current_breadth + (IF late THEN base_b - 2 ELSE base_b)]

\* a plausible slip: a time usage of exactly 0.7 counts as late
tuner_adjust_parameters_late_at(tuner, current_depth, current_breadth, info_quality, time_usage_fraction) ==
    LET base_d == IF LessThan(info_quality, 3, 10) THEN 1
                  ELSE IF GreaterThan(info_quality, 7, 10) THEN -1 ELSE 0
        base_b == IF LessThan(info_quality, 3, 10) THEN 2
                  ELSE IF GreaterThan(info_quality, 7, 10) THEN -1 ELSE 1
        late   == ~LessThan(time_usage_fraction, 7, 10)
    IN  [depth   |-> Max(1, Min(tuner.max_depth,
                                current_depth + (IF late THEN base_d - 1 ELSE base_d))),
         breadth |-> Max(2, Min(tuner.max_breadth,
                                current_breadth + (IF late THEN base_b - 2 ELSE base_b)))]

\* a plausible slip: the time budget is not looked at
tuner_adjust_parameters_no_time(tuner, current_depth, current_breadth, info_quality, time_usage_fraction) ==
    LET base_d == IF LessThan(info_quality, 3, 10) THEN 1
                  ELSE IF GreaterThan(info_quality, 7, 10) THEN -1 ELSE 0
        base_b == IF LessThan(info_quality, 3, 10) THEN 2
                  ELSE IF GreaterThan(info_quality, 7, 10) THEN -1 ELSE 1
    IN  [depth   |-> Max(1, Min(tuner.max_depth, current_depth + base_d)),
         breadth |-> Max(2, Min(tuner.max_breadth, current_breadth + base_b))]

\* a plausible slip: the two quality bands are the wrong way round
tuner_adjust_parameters_swapped(tuner, current_depth, current_breadth, info_quality, time_usage_fraction) ==
    LET base_d == IF GreaterThan(info_quality, 7, 10) THEN 1
                  ELSE IF LessThan(info_quality, 3, 10) THEN -1 ELSE 0
        base_b == IF GreaterThan(info_quality, 7, 10) THEN 2
                  ELSE IF LessThan(info_quality, 3, 10) THEN -1 ELSE 1
        late   == GreaterThan(time_usage_fraction, 7, 10)
    IN  [depth   |-> Max(1, Min(tuner.max_depth,
                                current_depth + (IF late THEN base_d - 1 ELSE base_d))),
         breadth |-> Max(2, Min(tuner.max_breadth,
                                current_breadth + (IF late THEN base_b - 2 ELSE base_b)))]

\* a plausible slip: the band of high quality is missing
tuner_adjust_parameters_no_high(tuner, current_depth, current_breadth, info_quality, time_usage_fraction) ==
    LET base_d == IF LessThan(info_quality, 3, 10) THEN 1 ELSE 0
        base_b == IF LessThan(info_quality, 3, 10) THEN 2 ELSE 1
        late   == GreaterThan(time_usage_fraction, 7, 10)
    IN  [depth   |-> Max(1, Min(tuner.max_depth,
                                current_depth + (IF late THEN base_d - 1 ELSE base_d))),
         breadth |-> Max(2, Min(tuner.max_breadth,
                                current_breadth + (IF late THEN base_b - 2 ELSE base_b)))]

tuner_adjust_parameters(tuner, current_depth, current_breadth, info_quality, time_usage_fraction) ==
    LET base_d == IF LessThan(info_quality, 3, 10) THEN 1
                  ELSE IF GreaterThan(info_quality, 7, 10) THEN -1 ELSE 0
        base_b == IF LessThan(info_quality, 3, 10) THEN 2
                  ELSE IF GreaterThan(info_quality, 7, 10) THEN -1 ELSE 1
        late   == GreaterThan(time_usage_fraction, 7, 10)
        depth_adjustment   == IF late THEN base_d - 1 ELSE base_d
        breadth_adjustment == IF late THEN base_b - 2 ELSE base_b
    IN  [depth   |-> Max(1, Min(tuner.max_depth, current_depth + depth_adjustment)),
         breadth |-> Max(2, Min(tuner.max_breadth, current_breadth + breadth_adjustment))]

\* len(text) of a text kept as word tokens: the words and the blanks between them
RECURSIVE CharLen(_)
CharLen(text) ==
    IF text = <<>> THEN 0
    ELSE Len(Head(text)) + (IF Len(text) > 1 THEN 1 ELSE 0) + CharLen(Tail(text))

RECURSIVE SumCharLen(_)
SumCharLen(texts) ==
    IF texts = <<>> THEN 0 ELSE CharLen(Head(texts)) + SumCharLen(Tail(texts))

RECURSIVE AllWords(_)
AllWords(texts) ==
    IF texts = <<>> THEN <<>> ELSE Head(texts) \o AllWords(Tail(texts))

\* 0.3*length_score + 0.3*contradiction_score + 0.4*diversity_score as one fraction
estimate_info_quality(learnings, contradictions) ==
    IF learnings = <<>> THEN <<0, 1>>
    ELSE LET n    == Len(learnings)
             c    == Len(contradictions)
             tot  == SumCharLen(learnings)
             w    == Max(1, Len(AllWords(learnings)))
             u    == Cardinality(Range(AllWords(learnings)))
             den  == 300 * n * w
             len_score  == Min(den, tot * w)
             con_score  == Max(0, (n - 2 * c) * 300 * w)
             div_score  == Min(den, 3 * u * 300 * n)
         IN  <<3 * len_score + 3 * con_score + 4 * div_score, 10 * den>>

\* elapsed / time_budget_seconds divides by zero when the budget is 0
time_usage_raises(tuner) ==
    /\ tuner.time_budget_seconds # None
    /\ tuner.start_time # None
    /\ tuner.time_budget_seconds = 0

get_time_usage_fraction(tuner, now) ==
    IF tuner.time_budget_seconds = None \/ tuner.start_time = None THEN <<0, 1>>
    ELSE LET elapsed == now - tuner.start_time
         IN  IF elapsed >= tuner.time_budget_seconds THEN <<1, 1>>
             ELSE <<elapsed, tuner.time_budget_seconds>>

(***************************************************************************)
(* ResearchProgress (progress.py).                                         *)
(***************************************************************************)
ProgressInit(initial_depth, initial_breadth) ==
    [total_depth       |-> initial_depth,
     total_breadth     |-> initial_breadth,
     current_depth     |-> initial_depth,
     current_breadth   |-> initial_breadth,
     total_queries     |-> 0,
     completed_queries |-> 0,
     current_query     |-> "",
     start_time        |-> 0]

\* a plausible slip: the value is set without asking hasattr
progress_update_setattr(prog, update_dict) ==
    [k \in DOMAIN prog \cup DOMAIN update_dict |->
        IF k \in DOMAIN update_dict THEN update_dict[k] ELSE prog[k]]

\* update_dict is a function from keys to values; unknown keys are skipped
progress_update(prog, update_dict) ==
    [k \in DOMAIN prog |-> IF k \in DOMAIN update_dict THEN update_dict[k] ELSE prog[k]]

(***************************************************************************)
(* ContentClassifier (content_classifier.py) on word tokens.  A text is a  *)
(* tuple of lower-case tokens, which stand for words joined by single      *)
(* spaces; a phrase is a tuple of tokens and is found in a text when its   *)
(* tokens occur there side by side.  The windows of the patterns           *)
(* (.{0,50}, .{0,10}, .{0,20}) are counted in characters.                  *)
(***************************************************************************)
Contains(text, phrase) ==
    \E i \in 1..(Len(text) - Len(phrase) + 1) :
        SubSeq(text, i, i + Len(phrase) - 1) = phrase

ContainsAny(text, phrases) == \E p \in phrases : Contains(text, p)

Months == <<"january", "february", "march", "april", "may", "june", "july",
            "august", "september", "october", "november", "december">>

MonthNum(m) == CHOOSE i \in 1..12 : Months[i] = m

YearValue == [y \in {"2023", "2024", "2025", "2026", "2030", "2031", "2034", "2035"} |->
                 CASE y = "2023" -> 2023 [] y = "2024" -> 2024 [] y = "2025" -> 2025
                   [] y = "2026" -> 2026 [] y = "2030" -> 2030 [] y = "2031" -> 2031
                   [] y = "2034" -> 2034 [] y = "2035" -> 2035]

DecimalNumbers == {"42.75", "1.5"}

\* memory.current_date, the reference date of the engine's classifier;
\* seconds is the time of day
current_date == [year |-> 2024, month |-> 3, day |-> 15, seconds |-> 0]

\* the (month, year) pairs of a text, in order: a month token followed by a year
MonthYearPairs(text) ==
    LET idx == {i \in 1..(Len(text) - 1) :
                   InSeq(text[i], Months) /\ text[i + 1] \in DOMAIN YearValue}
        RECURSIVE Collect(_)
        Collect(i) == IF i > Len(text) THEN <<>>
                      ELSE (IF i \in idx THEN <<<<text[i], text[i + 1]>>>> ELSE <<>>)
                           \o Collect(i + 1)
    IN  Collect(1)

\* datetime(year, month, 1) < date, for the match <<month, year>>
FirstOfMonthIsPastAt(date, pair) ==
    LET y == YearValue[pair[2]]
        m == MonthNum(pair[1])
    IN  \/ y < date.year
        \/ y = date.year /\ m < date.month
        \/ y = date.year /\ m = date.month /\ 1 < date.day
        \/ y = date.year /\ m = date.month /\ 1 = date.day /\ 0 < date.seconds

FirstOfMonthIsPast(pair) == FirstOfMonthIsPastAt(current_date, pair)

\* the number of characters before token i
RECURSIVE Offset(_, _)
Offset(text, i) == IF i = 1 THEN 0 ELSE Offset(text, i - 1) + Len(text[i - 1]) + 1

\* the number of characters between the end of token i and the start of token j
Gap(text, i, j) == Offset(text, j) - (Offset(text, i) + Len(text[i]))

Least(S) == CHOOSE x \in S : \A y \in S : x <= y

Greatest(S) == CHOOSE x \in S : \A y \in S : x >= y

\* upcoming.{0,50}(month).{0,10}(20\d\d) from the token i: the months it can
\* bind, each with some year in its window
UpcomingYears(text, j) ==
    {y \in (j + 1)..Len(text) : text[y] \in DOMAIN YearValue /\ Gap(text, j, y) <= 10}

UpcomingMonths(text, i) ==
    {j \in (i + 1)..Len(text) :
        /\ InSeq(text[j], Months)
        /\ Gap(text, i, j) <= 50
        /\ UpcomingYears(text, j) # {}}

\* re.finditer(upcoming_pattern, text) from the token `from` on: the leftmost
\* start, the greedy windows (the last month, then the last year), and the
\* scan resumed after the match
RECURSIVE UpcomingMatches(_, _)
UpcomingMatches(text, from) ==
    LET starts == {i \in from..Len(text) :
                      text[i] = "upcoming" /\ UpcomingMonths(text, i) # {}}
    IN  IF starts = {} THEN <<>>
        ELSE LET j == Greatest(UpcomingMonths(text, Least(starts)))
                 y == Greatest(UpcomingYears(text, j))
             IN  <<<<text[j], text[y]>>>> \o UpcomingMatches(text, y + 1)

\* scheduled.*?for.*?(month).*?(20\d\d) from the token i: the lazy windows
\* bind the first "for", the first month after it and the first year after that
ScheduledFors(text, i) ==
    {f \in (i + 1)..Len(text) :
        /\ text[f] = "for"
        /\ \E m \in (f + 1)..Len(text) : \E y \in (m + 1)..Len(text) :
              InSeq(text[m], Months) /\ text[y] \in DOMAIN YearValue}

RECURSIVE ScheduledMatches(_, _)
ScheduledMatches(text, from) ==
    LET starts == {i \in from..Len(text) :
                      text[i] = "scheduled" /\ ScheduledFors(text, i) # {}}
    IN  IF starts = {} THEN <<>>
        ELSE LET f == Least(ScheduledFors(text, Least(starts)))
                 m == Least({k \in (f + 1)..Len(text) :
                               /\ InSeq(text[k], Months)
                               /\ \E y \in (k + 1)..Len(text) : text[y] \in DOMAIN YearValue})
                 y == Least({k \in (m + 1)..Len(text) : text[k] \in DOMAIN YearValue})
             IN  <<<<text[m], text[y]>>>> \o ScheduledMatches(text, y + 1)

\* a loop `for match in matches`: whether some match is returned as a violation
RECURSIVE SomePast(_, _)
SomePast(date, matches) ==
    IF matches = <<>> THEN FALSE
    ELSE IF FirstOfMonthIsPastAt(date, Head(matches)) THEN TRUE
    ELSE SomePast(date, Tail(matches))

\* a plausible slip: the two loops are the other way round
validate_temporal_consistency_scheduled_first(date, text) ==
    IF SomePast(date, ScheduledMatches(text, 1))
    THEN [ok |-> FALSE, msg |-> "refers to a scheduled event that should have already occurred"]
    ELSE IF SomePast(date, UpcomingMatches(text, 1))
    THEN [ok |-> FALSE, msg |-> "refers to a past event as upcoming"]
    ELSE [ok |-> TRUE, msg |-> "No temporal inconsistencies detected"]

\* ContentClassifier(date).validate_temporal_consistency(text)
validate_temporal_consistency_at(date, text) ==
    IF SomePast(date, UpcomingMatches(text, 1))
    THEN [ok |-> FALSE, msg |-> "refers to a past event as upcoming"]
    ELSE IF SomePast(date, ScheduledMatches(text, 1))
    THEN [ok |-> FALSE, msg |-> "refers to a scheduled event that should have already occurred"]
    ELSE [ok |-> TRUE, msg |-> "No temporal inconsistencies detected"]

validate_temporal_consistency(text) == validate_temporal_consistency_at(current_date, text)

\* (by|in|reach|hitting).{0,20}(20[3-9]\d).{0,50}\$?([0-9,]+\.[0-9]+) from the
\* token i: the years it can bind, each with a decimal number in its window
ProjectionNumbers(text, y) ==
    {d \in (y + 1)..Len(text) : text[d] \in DecimalNumbers /\ Gap(text, y, d) <= 50}

ProjectionYears(text, i) ==
    {y \in (i + 1)..Len(text) :
        /\ text[y] \in DOMAIN YearValue
        /\ YearValue[text[y]] >= 2030
        /\ Gap(text, i, y) <= 20
        /\ ProjectionNumbers(text, y) # {}}

\* re.finditer(long_term_projection_pattern, text): the matches as <<year, value>>
RECURSIVE ProjectionMatches(_, _)
ProjectionMatches(text, from) ==
    LET starts == {i \in from..Len(text) :
                      /\ text[i] \in {"by", "in", "reach", "hitting"}
                      /\ ProjectionYears(text, i) # {}}
    IN  IF starts = {} THEN <<>>
        ELSE LET y == Greatest(ProjectionYears(text, Least(starts)))
                 d == Greatest(ProjectionNumbers(text, y))
             IN  <<<<text[y], text[d]>>>> \o ProjectionMatches(text, d + 1)

\* '.' in value
HasDecimalPoint(value) == value \in DecimalNumbers

RECURSIVE SomeTooPrecise(_, _)
SomeTooPrecise(date, matches) ==
    IF matches = <<>> THEN FALSE
    ELSE IF YearValue[Head(matches)[1]] - date.year > 10 /\ HasDecimalPoint(Head(matches)[2])
    THEN TRUE
    ELSE SomeTooPrecise(date, Tail(matches))

\* a plausible slip: a forecast of 10 years counts as long
RECURSIVE SomeTooPreciseFromTen(_, _)
SomeTooPreciseFromTen(date, matches) ==
    IF matches = <<>> THEN FALSE
    ELSE IF YearValue[Head(matches)[1]] - date.year >= 10 /\ HasDecimalPoint(Head(matches)[2])
    THEN TRUE
    ELSE SomeTooPreciseFromTen(date, Tail(matches))

validate_numerical_reasonableness_from_ten(date, text) ==
    IF SomeTooPreciseFromTen(date, ProjectionMatches(text, 1))
    THEN [ok |-> FALSE, msg |-> "Unreasonable precision"]
    ELSE [ok |-> TRUE, msg |-> "No unreasonable numerical projections detected"]

\* ContentClassifier(date).validate_numerical_reasonableness(text)
validate_numerical_reasonableness_at(date, text) ==
    IF SomeTooPrecise(date, ProjectionMatches(text, 1))
    THEN [ok |-> FALSE, msg |-> "Unreasonable precision"]
    ELSE [ok |-> TRUE, msg |-> "No unreasonable numerical projections detected"]

validate_numerical_reasonableness(text) ==
    validate_numerical_reasonableness_at(current_date, text)

SpeculativePhrases ==
    {<<"could", "be">>, <<"might", "be">>, <<"potentially">>, <<"possibly">>,
     <<"projected">>, <<"forecasted">>, <<"expected", "to">>, <<"anticipated">>,
     <<"estimated">>, <<"in", "the", "future">>}
    \cup {<<"by", y>> : y \in DOMAIN YearValue}

OpinionPhrases ==
    {<<"believe">>, <<"feel">>, <<"think">>, <<"suggest">>, <<"indicate">>,
     <<"likely">>, <<"recommend">>, <<"advocate">>, <<"argue">>}

\* a plausible slip: the opinion phrases are looked for first
classify_content_type_opinion_first(text) ==
    IF ContainsAny(text, OpinionPhrases) THEN "opinion"
    ELSE IF ContainsAny(text, SpeculativePhrases) THEN "speculative"
    ELSE "factual"

classify_content_type(text) ==
    IF ContainsAny(text, SpeculativePhrases) THEN "speculative"
    ELSE IF ContainsAny(text, OpinionPhrases) THEN "opinion"
    ELSE "factual"

(***************************************************************************)
(* ResearchEngine.detect_contradictions (engine.py).                       *)
(***************************************************************************)
performance_keywords ==
    {<<"performance">>, <<"growth">>, <<"revenue">>, <<"sales">>, <<"profit">>, <<"loss">>}

event_keywords == {<<"scheduled">>, <<"upcoming">>, <<"announced">>, <<"launched">>}

layoff_keywords == {<<"layoff">>, <<"job", "cut">>, <<"firing">>, <<"downsizing">>}

positive_terms == {<<"growth">>, <<"increase">>, <<"positive">>, <<"strong">>, <<"success">>}

negative_terms == {<<"decline">>, <<"decrease">>, <<"negative">>, <<"weak">>, <<"failure">>}

plan_terms == {<<"plan">>, <<"will">>, <<"future">>, <<"expected">>, <<"upcoming">>}

past_terms == {<<"completed">>, <<"announced">>, <<"executed">>, <<"implemented">>}

Families == <<"Performance", "Event Dates", "Layoff Timeline">>

FamilyKeywords(topic) ==
    CASE topic = "Performance" -> performance_keywords
      [] topic = "Event Dates" -> event_keywords
      [] topic = "Layoff Timeline" -> layoff_keywords

\* the test made on one stored learning inside the loop of one family
Conflicts(topic, existing, new_learning) ==
    /\ ContainsAny(existing, FamilyKeywords(topic))
    /\ CASE topic = "Performance" ->
              \/ ContainsAny(new_learning, positive_terms) /\ ContainsAny(existing, negative_terms)
              \/ ContainsAny(new_learning, negative_terms) /\ ContainsAny(existing, positive_terms)
         [] topic = "Event Dates" ->
              /\ MonthYearPairs(new_learning) # <<>>
              /\ MonthYearPairs(existing) # <<>>
              /\ MonthYearPairs(new_learning) # MonthYearPairs(existing)
         [] topic = "Layoff Timeline" ->
              \/ ContainsAny(new_learning, plan_terms) /\ ContainsAny(existing, past_terms)
              \/ ContainsAny(new_learning, past_terms) /\ ContainsAny(existing, plan_terms)

\* a plausible slip: the loop of a family stops at its first conflict
ScanFamily_first(mem, topic, stored, new_learning) ==
    LET hits == {i \in 1..Len(stored) : Conflicts(topic, stored[i], new_learning)}
    IN  IF hits = {} THEN mem
        ELSE add_contradiction(mem, topic,
                               stored[CHOOSE i \in hits : \A k \in hits : i <= k],
                               new_learning)

\* the loop `for existing in self.memory.learnings` of one family
RECURSIVE ScanFamily(_, _, _, _)
ScanFamily(mem, topic, stored, new_learning) ==
    IF stored = <<>> THEN mem
    ELSE ScanFamily(
            IF Conflicts(topic, Head(stored), new_learning)
            THEN add_contradiction(mem, topic, Head(stored), new_learning)
            ELSE mem,
            topic, Tail(stored), new_learning)

RECURSIVE ScanFamilies(_, _, _)
ScanFamilies(mem, topics, new_learning) ==
    IF topics = <<>> THEN mem
    ELSE ScanFamilies(
            IF ContainsAny(new_learning, FamilyKeywords(Head(topics)))
            THEN ScanFamily(mem, Head(topics), mem.learnings, new_learning)
            ELSE mem,
            Tail(topics), new_learning)

detect_contradictions(mem, new_learning) ==
    IF mem.learnings = <<>> THEN mem
    ELSE ScanFamilies(mem, Families, new_learning)

(***************************************************************************)
(* ResearchEngine (engine.py): the handlers, as operators from the memory  *)
(* and the answers of the external services to the new memory and the      *)
(* handler's return value.  An answer is [ok, val]: ok is FALSE when the   *)
(* call raised (transport failure, malformed LLM output).                  *)
(***************************************************************************)
Ok(v) == [ok |-> TRUE, val |-> v]

Failed == [ok |-> FALSE, val |-> <<>>]

Repeat(x, n) == [i \in 1..n |-> x]

\* a plausible slip: the list is returned as the LLM gave it
generate_serp_queries_uncut(mem, gen, num_queries) ==
    LET m1 == add_thought(mem, Thought("Generating SERP queries"))
    IN  IF gen.ok
        THEN [mem |-> add_thoughts(add_thought(m1, Thought("Generated SERP queries")),
                                   Repeat(Thought("Query"), Len(gen.val))),
              ret |-> gen.val]
        ELSE [mem |-> add_thought(m1, Thought("Error generating SERP queries")),
              ret |-> <<>>]

generate_serp_queries(mem, gen, num_queries) ==
    LET m1 == add_thought(mem, Thought("Generating SERP queries"))
    IN  IF gen.ok
        THEN [mem |-> add_thoughts(add_thought(m1, Thought("Generated SERP queries")),
                                   Repeat(Thought("Query"), Len(gen.val))),
              ret |-> Take(gen.val, num_queries)]
        ELSE [mem |-> add_thought(m1, Thought("Error generating SERP queries")),
              ret |-> <<>>]

generate_search_engine_queries(mem, decomp) ==
    LET m1 == add_thought(mem, Thought("Decomposing research prompt"))
    IN  IF decomp.ok
        THEN [mem |-> add_thought(m1, Thought("Generated search engine queries")),
              ret |-> decomp.val]
        ELSE [mem |-> add_thought(m1, Thought("Error generating search engine queries")),
              ret |-> <<>>]

\* "Remove duplicates while preserving order"
RECURSIVE Unique(_, _)
Unique(all_urls, unique_urls) ==
    IF all_urls = <<>> THEN unique_urls
    ELSE Unique(Tail(all_urls),
                IF InSeq(Head(all_urls), unique_urls) THEN unique_urls
                ELSE Append(unique_urls, Head(all_urls)))

\* TavilySearch(search_query).search(max_results): the provider's answer to one
\* search string, a list of URLs or a failure (an exception raised to the caller)
TavilySearch_search(search, search_query) == search[search_query]

\* the loop over the search strings; raised is TRUE when a search raised, which
\* leaves the loop for the handler of execute_search
RECURSIVE SearchLoop(_, _, _, _, _)
SearchLoop(mem, search_queries, search, all_urls, n) ==
    IF search_queries = <<>>
    THEN [mem |-> mem, raised |-> FALSE, all_urls |-> all_urls, n |-> n]
    ELSE LET m1  == add_thought(mem, Thought("Searching for"))
             ans == TavilySearch_search(search, Head(search_queries))
         IN  IF ~ans.ok
             THEN [mem |-> m1, raised |-> TRUE, all_urls |-> all_urls, n |-> n + 1]
             ELSE SearchLoop(add_thought(m1, Thought("Found results for query")),
                             Tail(search_queries), search, all_urls \o ans.val, n + 1)

execute_search(mem, decomp, search) ==
    LET Collect(loop) ==
            IF loop.raised
            THEN [mem |-> add_thought(loop.mem, Thought("Error executing search")),
                  ret |-> <<>>, n |-> loop.n, raised |-> TRUE]
            ELSE [mem |-> add_thought(loop.mem, Thought("Collected unique URLs")),
                  ret |-> Unique(loop.all_urls, <<>>), n |-> loop.n, raised |-> FALSE]
        Search(gq) == Collect(SearchLoop(gq.mem, gq.ret, search, <<>>, 0))
    IN  Search(generate_search_engine_queries(
                   add_thought(mem, Thought("Executing search for query")), decomp))

\* a plausible slip: the status code is not looked at
SuccessfulUrls_any_status(data) == [i \in 1..Len(data) |-> data[i].url]

\* the successfully scraped URLs of a scrape result
RECURSIVE SuccessfulUrls(_)
SuccessfulUrls(data) ==
    IF data = <<>> THEN <<>>
    ELSE (IF Head(data).statusCode = 200 THEN <<Head(data).url>> ELSE <<>>)
         \o SuccessfulUrls(Tail(data))

\* the scraped items that have status 200 and a non-empty markdown
RECURSIVE WithContent(_)
WithContent(data) ==
    IF data = <<>> THEN <<>>
    ELSE (IF Head(data).statusCode = 200 /\ Head(data).markdown # <<>>
          THEN <<Head(data)>> ELSE <<>>)
         \o WithContent(Tail(data))

RECURSIVE ScrapeThoughts(_, _)
ScrapeThoughts(mem, data) ==
    IF data = <<>> THEN mem
    ELSE ScrapeThoughts(
            IF Head(data).statusCode = 200 THEN mem
            ELSE add_thought(mem, Thought("Failed to scrape URL")),
            Tail(data))

scrape_content(mem, urls, scrape) ==
    LET m1 == add_thought(mem, Thought("Scraping content from URLs"))
    IN  IF scrape.ok
        THEN [mem |-> add_thought(ScrapeThoughts(m1, scrape.val),
                                  Thought("Successfully scraped")),
              ret |-> scrape.val]
        ELSE [mem |-> add_thought(m1, Thought("Error scraping content")),
              ret |-> <<>>]

RECURSIVE StoreEvaluations(_, _)
StoreEvaluations(mem, evaluations) ==
    IF evaluations = <<>> THEN mem
    ELSE StoreEvaluations(
            add_thought(add_source_evaluation(mem, Head(evaluations)),
                        Thought("Source evaluation")),
            Tail(evaluations))

\* a plausible slip: the test of the two lists is dropped
evaluate_sources_unchecked(mem, urls, contents, eval) ==
    LET m1 == add_thought(mem, Thought("Evaluating credibility and relevance"))
    IN  IF eval.ok
        THEN [mem |-> StoreEvaluations(m1, eval.val), ret |-> eval.val]
        ELSE [mem |-> add_thought(m1, Thought("Error evaluating sources")), ret |-> <<>>]

evaluate_sources(mem, urls, contents, eval) ==
    LET m1 == add_thought(mem, Thought("Evaluating credibility and relevance"))
    IN  IF urls = <<>> \/ contents = <<>> \/ Len(urls) # Len(contents)
        THEN [mem |-> add_thought(m1, Thought("Cannot evaluate sources")), ret |-> <<>>]
        ELSE IF eval.ok
        THEN [mem |-> StoreEvaluations(m1, eval.val), ret |-> eval.val]
        ELSE [mem |-> add_thought(m1, Thought("Error evaluating sources")), ret |-> <<>>]

\* the validation loop over the contents: the thoughts it adds and the number
\* of validation issues it collects
RECURSIVE ValidateContents(_, _, _)
ValidateContents(mem, sources, issues) ==
    IF sources = <<>> THEN [mem |-> mem, issues |-> issues]
    ELSE LET content == Head(sources).markdown
             t  == validate_temporal_consistency(content)
             nr == validate_numerical_reasonableness(content)
             m1 == IF t.ok THEN mem ELSE add_thought(mem, Thought("Temporal inconsistency in source"))
             m2 == IF nr.ok THEN m1 ELSE add_thought(m1, Thought("Numerical issue in source"))
             m3 == add_thought(m2, Thought("Content classified as " \o classify_content_type(content)))
         IN  ValidateContents(m3, Tail(sources),
                              issues + (IF t.ok THEN 0 ELSE 1) + (IF nr.ok THEN 0 ELSE 1))

\* "Log the extracted learnings": one thought and one contradiction scan each
RECURSIVE LogLearnings(_, _)
LogLearnings(mem, learnings) ==
    IF learnings = <<>> THEN mem
    ELSE LogLearnings(
            detect_contradictions(
                add_thought(mem, [kind |-> "Learning", a |-> Head(learnings), b |-> NoText]),
                Head(learnings)),
            Tail(learnings))

\* what process_serp_result returns: a Learnings object, or None
NoLearnings == [none |-> TRUE, learnings |-> <<>>, follow_up_questions |-> <<>>]

\* a plausible slip: a failed analysis is answered with a filler Learnings object
process_serp_result_filler(mem, data, num_learnings, eval, extract) ==
    [mem |-> add_thought(mem, Thought("Error processing search results")),
     ret |-> [none |-> FALSE, learnings |-> << <<"no", "data">> >>,
              follow_up_questions |-> <<>>],
     evaluated |-> 1, extracted |-> 1]

\* the steps are written as local operators, each taking what the step before
\* it left: the memory m1 and the usable sources, the evaluation ev, the
\* validation vc, and the memory m3 the extraction starts from
process_serp_result(mem, data, num_learnings, eval, extract) ==
    LET Extract(m3) ==
            IF extract.ok
            THEN [mem |-> LogLearnings(
                              add_thoughts(m3, <<Thought("Extracted learnings"),
                                                 Thought("Generated follow-up questions")>>),
                              extract.val.learnings),
                  ret |-> [none |-> FALSE, learnings |-> extract.val.learnings,
                           follow_up_questions |-> extract.val.follow_up_questions],
                  evaluated |-> 1, extracted |-> 1]
            ELSE [mem |-> add_thought(m3, Thought("Error processing search results")),
                  ret |-> NoLearnings, evaluated |-> 1, extracted |-> 1]
        Validated(vc) ==
            Extract(IF vc.issues > 0
                    THEN add_thought(vc.mem, Thought("Including validation issues in analysis prompt"))
                    ELSE vc.mem)
        Evaluated(ev, sources) == Validated(ValidateContents(ev.mem, sources, 0))
        Analyse(m1, sources) ==
            IF sources = <<>>
            THEN [mem |-> add_thought(m1, Thought("No valid content found in search results")),
                  ret |-> NoLearnings, evaluated |-> 0, extracted |-> 0]
            ELSE Evaluated(evaluate_sources(
                               add_thought(m1, Thought("Analyzing content sources")),
                               [i \in 1..Len(sources) |-> sources[i].url],
                               [i \in 1..Len(sources) |-> sources[i].markdown],
                               eval),
                           sources)
    IN  Analyse(add_thought(mem, Thought("Processing search results for query")),
                WithContent(data))

\* a plausible slip: the depth test lets a level of depth 1 go deeper
more_depth_from_one(current_depth) == current_depth >= 1

\* `current_depth > 1`, the test of execute_query and of the iteration loop
more_depth(current_depth) == current_depth > 1

QueryResult(success, reason, new_learnings, follow_up_questions) ==
    [success |-> success, reason |-> reason, new_learnings |-> new_learnings,
     follow_up_questions |-> follow_up_questions]

NoCalls == [decompose |-> 0, search |-> 0, scrape |-> 0, evaluate |-> 0,
            extract |-> 0, urls |-> 0, follow_ups |-> 0, failed |-> {},
            learned |-> 0, visited |-> 0]

\* a plausible slip: the early return on an empty search is dropped
never_empty(search_urls) == FALSE

\* `if not search_urls`: the early return of execute_query
no_search_results(search_urls) == search_urls = <<>>

\* answers is [decomp, search, scrape, eval, extract]: what the external services
\* answer to this query, should they be asked.  calls observes the query: how often
\* each service was asked, how many URLs the search step and how many follow-up
\* questions the extraction gave, which of the calls made failed, and how many
\* learnings and visited URLs the query added to the memory.
execute_query(mem, prog, serp_query, current_depth, current_breadth, answers) ==
    LET p1 == IF prog # NoObject
              THEN progress_update(prog, [current_query   |-> serp_query.query,
                                          current_depth   |-> current_depth,
                                          current_breadth |-> current_breadth])
              ELSE prog
        SearchFailures(se) ==
            (IF answers.decomp.ok THEN {} ELSE {"decompose"})
            \cup (IF se.raised THEN {"search"} ELSE {})
        \* the return, with the memory m3 after add_urls and add_learnings
        Updated(se, pr, m3) ==
            LET fu == pr.ret.follow_up_questions
                cl == [decompose |-> 1, search |-> se.n, scrape |-> 1,
                       evaluate |-> pr.evaluated, extract |-> pr.extracted,
                       urls |-> Len(se.ret),
                       follow_ups |-> IF pr.extracted = 1 /\ answers.extract.ok
                                      THEN Len(answers.extract.val.follow_up_questions) ELSE 0,
                       failed |-> SearchFailures(se)
                                  \cup (IF answers.scrape.ok THEN {} ELSE {"scrape"})
                                  \cup (IF pr.evaluated = 1 /\ ~answers.eval.ok
                                        THEN {"evaluate"} ELSE {})
                                  \cup (IF pr.extracted = 1 /\ ~answers.extract.ok
                                        THEN {"extract"} ELSE {}),
                       learned |-> Len(m3.learnings) - Len(mem.learnings),
                       visited |-> Len(m3.visited_urls) - Len(mem.visited_urls)]
            IN  IF ~pr.ret.none /\ more_depth(current_depth)
                THEN [mem |-> add_thoughts(
                                  add_thought(m3, Thought("Identified follow-up questions")),
                                  Repeat(Thought("Follow-up"), Len(fu))),
                      progress |-> p1,
                      ret |-> QueryResult(TRUE, "", pr.ret.learnings, fu),
                      calls |-> cl]
                ELSE [mem |-> m3, progress |-> p1,
                      ret |-> QueryResult(TRUE, "", <<>>, <<>>),
                      calls |-> cl]
        \* "Update research memory", with the memory m2 after add_urls
        WithUrls(se, pr, m2) ==
            Updated(se, pr, IF pr.ret.none THEN m2 ELSE add_learnings(m2, pr.ret.learnings))
        Processed(se, successful_urls, pr) ==
            WithUrls(se, pr, add_urls(pr.mem, successful_urls))
        Scraped(se, sc) ==
            Processed(se, SuccessfulUrls(sc.ret),
                      process_serp_result(sc.mem, sc.ret, current_breadth,
                                          answers.eval, answers.extract))
        Searched(se) ==
            IF no_search_results(se.ret)
            THEN [mem |-> add_thought(se.mem, Thought("No search results found")),
                  progress |-> p1,
                  ret |-> QueryResult(FALSE, "No search results found", <<>>, <<>>),
                  calls |-> [NoCalls EXCEPT
                                !.decompose = 1, !.search = se.n,
                                !.failed = SearchFailures(se),
                                !.learned = Len(se.mem.learnings) - Len(mem.learnings),
                                !.visited = Len(se.mem.visited_urls) - Len(mem.visited_urls)]]
            ELSE Scraped(se, scrape_content(se.mem, se.ret, answers.scrape))
    IN  Searched(execute_search(
                     add_thoughts(mem, <<Thought("Executing research query"),
                                         Thought("Research goal")>>),
                     answers.decomp, answers.search))

\* a call of get_time_usage_fraction: whether it raised and, if not, its value
time_usage_outcome(tuner, now) ==
    IF time_usage_raises(tuner) THEN [raised |-> TRUE, value |-> <<0, 1>>]
    ELSE [raised |-> FALSE, value |-> get_time_usage_fraction(tuner, now)]

\* ResearchEngine.adjust_parameters, when get_time_usage_fraction does not raise
adjust_parameters(mem, auto_tune, tuner, current_depth, current_breadth, now) ==
    IF ~auto_tune \/ tuner = NoObject
    THEN [mem |-> mem, depth |-> current_depth, breadth |-> current_breadth]
    ELSE LET info_quality == estimate_info_quality(mem.learnings, mem.contradictions)
             time_usage   == get_time_usage_fraction(tuner, now)
             new == tuner_adjust_parameters(tuner, current_depth, current_breadth,
                                            info_quality, time_usage)
         IN  [mem |-> IF new.depth # current_depth \/ new.breadth # current_breadth
                      THEN add_thought(mem, Thought("Auto-adjusted parameters"))
                      ELSE mem,
              depth |-> new.depth, breadth |-> new.breadth]

\* a plausible slip: the next level keeps the breadth
static_next_same_breadth(current_depth, current_breadth) ==
    [depth   |-> current_depth - 1,
     breadth |-> current_breadth]

\* the static rule of the iteration loop
static_next(current_depth, current_breadth) ==
    [depth   |-> current_depth - 1,
     breadth |-> Max(1, (current_breadth + 1) \div 2)]

determine_auto_parameters(mem, auto_tune, tuner, query) ==
    IF ~auto_tune \/ tuner = NoObject
    THEN [mem |-> mem, depth |-> 2, breadth |-> 4]
    ELSE LET p == determine_initial_parameters(tuner, analyze_question_complexity(query))
         IN  [mem |-> add_thought(mem, Thought("Auto-tuned parameters")),
              depth |-> p.depth, breadth |-> p.breadth]

\* a plausible slip: only None counts as not given (`x if x is not None else y`)
OrElseNone(x, y) == IF x = None THEN y ELSE x

\* Python's `x or y` on an optional integer: None and 0 are both falsy
OrElse(x, y) == IF x = None \/ x = 0 THEN y ELSE x

(***************************************************************************)
(* Bounds of the model and the answers the environment may give.           *)
(***************************************************************************)
MaxQueries == 2   \* most queries executed in one run
MaxClock == 2     \* latest reading of the loop's clock, in seconds since the start

DefaultMaxDepth == 5

DefaultMaxBreadth == 8

DepthArgs == {None, 0, 1, 2}

BreadthArgs == {None, 0, 2}

Budgets == {None, 0, 2}

Questions == {[entities |-> 2, aspects |-> 4, keywords |-> 4]}

SerpQuery(i) == [query |-> i, research_goal |-> i]

\* the LLM fails, or returns no, one or three queries
GenAnswers == {Failed, Ok(<<>>), Ok(<<SerpQuery(1)>>),
               Ok(<<SerpQuery(1), SerpQuery(2), SerpQuery(3)>>)}

LA == <<"revenue", "growth">>

LB == <<"revenue", "decline">>

PlainContent == <<"quantum", "hardware">>

Item(url, statusCode, markdown) == [url |-> url, statusCode |-> statusCode, markdown |-> markdown]

Evaluation(url) == [url |-> url, credibility_rating |-> "high", relevance_rating |-> "medium"]

Extraction(learnings, follow_up_questions) ==
    [learnings |-> learnings, follow_up_questions |-> follow_up_questions]

Answers(decomp, search, scrape, eval, extract) ==
    [decomp |-> decomp, search |-> [s \in {"s1"} |-> search], scrape |-> scrape,
     eval |-> eval, extract |-> extract]

GoodScrape == Ok(<<Item("u1", 200, PlainContent)>>)

GoodEval == Ok(<<Evaluation("u1")>>)

WithFollowUp == Ok(Extraction(<<LA>>, <<"f1">>))

\* what the services answer to one query: each call may fail, the search may find
\* nothing, a page may be missing or empty, and the extraction may or may not ask
\* for more
QueryAnswers ==
    {Answers(Failed, Ok(<<"u1">>), GoodScrape, GoodEval, WithFollowUp),
     Answers(Ok(<<"s1">>), Failed, GoodScrape, GoodEval, WithFollowUp),
     Answers(Ok(<<"s1">>), Ok(<<>>), GoodScrape, GoodEval, WithFollowUp),
     Answers(Ok(<<"s1">>), Ok(<<"u1">>), Failed, GoodEval, WithFollowUp),
     Answers(Ok(<<"s1">>), Ok(<<"u1">>),
             Ok(<<Item("u2", 200, <<>>), Item("u1", 404, <<>>)>>), GoodEval, WithFollowUp),
     Answers(Ok(<<"s1">>), Ok(<<"u1">>), GoodScrape, Failed, Failed),
     Answers(Ok(<<"s1">>), Ok(<<"u1">>), GoodScrape, Failed, WithFollowUp),
     Answers(Ok(<<"s1">>), Ok(<<"u1">>), GoodScrape, GoodEval, Failed),
     Answers(Ok(<<"s1">>), Ok(<<"u1">>), GoodScrape, GoodEval, WithFollowUp),
     Answers(Ok(<<"s1">>), Ok(<<"u2">>), Ok(<<Item("u2", 200, PlainContent)>>),
             Ok(<<Evaluation("u2")>>), Ok(Extraction(<<LA, LB>>, <<>>))),
     Answers(Ok(<<"s1">>), Ok(<<"u1">>), GoodScrape, GoodEval, Ok(Extraction(<<>>, <<"f1">>)))}

(***************************************************************************)
(* The run: api.deep_research constructs an engine and awaits              *)
(* ResearchEngine.deep_research, whose nested execute_research_iteration   *)
(* calls are the frames of stack (the last frame is the running one).      *)
(*   pc = "idle"         before the call of api.deep_research              *)
(*        "constructed"  api.py line 56, the engine exists                 *)
(*        "iter"         at the top of execute_research_iteration          *)
(*        "loop"         at the head of `for serp_query in serp_queries`   *)
(*        "decide"       execute_query has returned (engine.py line 697)   *)
(*        "finish"       the outermost iteration has returned (line 722)   *)
(*        "done"         api.deep_research has returned                    *)
(***************************************************************************)
NoResult == QueryResult(FALSE, "not executed", <<>>, <<>>)

Frame(query, depth, breadth, from) ==
    [query   |-> query,     \* iteration_query: [goal, follow]
     depth   |-> depth,     \* current_depth
     breadth |-> breadth,   \* current_breadth
     queries |-> <<>>,      \* serp_queries
     i       |-> 0,         \* index of serp_query in serp_queries
     result  |-> NoResult,  \* query_result of serp_query
     from    |-> from]      \* index of the caller's serp_query, 0 for the first call

Top == stack[Len(stack)]

\* a plausible slip: the recursive call is started but not awaited, and the
\* caller's loop moves on
call_iteration_unawaited(stk, frame) ==
    Append([stk EXCEPT ![Len(stk)].i = @ + 1], frame)

\* `await execute_research_iteration(...)`: the caller waits in its frame
call_iteration(stk, frame) == Append(stk, frame)

\* return of execute_research_iteration: the caller's loop goes to its next query
return_from_iteration(stk) ==
    LET rest == SubSeq(stk, 1, Len(stk) - 1)
    IN  IF rest = <<>> THEN rest
        ELSE [rest EXCEPT ![Len(rest)].i = @ + 1, ![Len(rest)].result = NoResult]

PcAfterReturn(stk) == IF Len(stk) = 1 THEN "finish" ELSE "loop"

\* a plausible slip: the except branch of api.deep_research raises again
Reraised(error) == [status |-> "raised", error |-> error, value |-> <<>>]

\* the except branch of api.deep_research
DegradedResult(error) ==
    [status |-> "returned", error |-> error,
     value  |-> [learnings        |-> << <<"Research error", error>> >>,
                 visited_urls     |-> <<>>,
                 chain_of_thought |-> <<Thought("Critical error in research process")>>]]

\* the condition of the iteration loop for going deeper
bears_follow_up(frame) ==
    /\ frame.result.success
    /\ more_depth(frame.depth)
    /\ frame.result.follow_up_questions # <<>>

Init ==
    /\ memory = MemoryInit
    /\ progress = NoObject
    /\ auto_tuner = NoObject
    /\ engine = NoObject
    /\ stack = <<>>
    /\ pc = "idle"
    /\ result = [status |-> "pending", error |-> "", value |-> <<>>]
    /\ calls = NoCalls

\* api.deep_research up to the construction of the engine; without LLM_MODEL_NAME
\* ResearchEngine.__init__ raises KeyError, which the except branch catches
ApiCallWith(auto_tunes, budgets) ==
    /\ pc = "idle"
    /\ \E has_model \in BOOLEAN, auto_tune \in auto_tunes, time_budget_seconds \in budgets :
        IF has_model
        THEN /\ engine' = [auto_tune |-> auto_tune, run |-> "idle", expands |-> 0,
                             query |-> NoObject, depth_arg |-> None, breadth_arg |-> None]
             /\ auto_tuner' = IF auto_tune
                              THEN AutoTunerInit(DefaultMaxDepth, DefaultMaxBreadth, time_budget_seconds)
                              ELSE NoObject
             /\ memory' = MemoryInit
             /\ progress' = NoObject
             /\ pc' = "constructed"
             /\ UNCHANGED result
        ELSE /\ result' = DegradedResult("KeyError")
             /\ pc' = "done"
             /\ UNCHANGED <<engine, auto_tuner, memory, progress>>
    /\ UNCHANGED <<stack, calls>>

ApiCall == ApiCallWith(BOOLEAN, Budgets)

\* a plausible slip: the start time is left as the constructor set it
set_start_time_skipped(tuner, now) == tuner

\* `self.auto_tuner.start_time = asyncio.get_event_loop().time()`; the clock of
\* the model reads 0 at that moment
set_start_time(tuner, now) == [tuner EXCEPT !.start_time = now]

\* ResearchEngine.deep_research up to its first call of execute_research_iteration.
\* The arguments the caller gave are drawn here, where they are first read.
DeepResearchBeginWith(depth_args, breadth_args) ==
    /\ pc = "constructed"
    /\ \E depth_arg \in depth_args, breadth_arg \in breadth_args, query \in Questions :
        LET tuned == engine.auto_tune /\ (breadth_arg = None \/ depth_arg = None)
            ap == determine_auto_parameters(memory, engine.auto_tune, auto_tuner, query)
            m0 == IF tuned THEN ap.mem ELSE memory
            depth   == IF tuned THEN OrElse(depth_arg, ap.depth) ELSE OrElse(depth_arg, 2)
            breadth == IF tuned THEN OrElse(breadth_arg, ap.breadth) ELSE OrElse(breadth_arg, 4)
        IN  /\ progress' = ProgressInit(depth, breadth)
            /\ auto_tuner' = IF engine.auto_tune /\ auto_tuner # NoObject
                             THEN set_start_time(auto_tuner, 0)
                             ELSE auto_tuner
            /\ memory' = add_thoughts(m0, <<Thought("Starting deep research"),
                                            Thought("Research parameters"),
                                            Thought("Current date context")>>)
            /\ stack' = call_iteration(stack, Frame([goal |-> 0, follow |-> <<>>], depth, breadth, 0))
            /\ engine' = [engine EXCEPT !.run = "running", !.expands = 1,
                                        !.query = query, !.depth_arg = depth_arg,
                                        !.breadth_arg = breadth_arg]
            /\ pc' = "iter"
    /\ UNCHANGED <<result, calls>>

DeepResearchBegin == DeepResearchBeginWith(DepthArgs, BreadthArgs)

\* execute_research_iteration up to its loop: the queries of the level are generated
IterationBegin ==
    /\ pc = "iter"
    /\ \E gen \in GenAnswers :
        LET m1 == add_thoughts(memory, <<Thought("Starting research iteration"),
                                         Thought("Iteration query")>>)
            g  == generate_serp_queries(m1, gen, Top.breadth)
        IN  IF g.ret = <<>>
            THEN /\ memory' = add_thought(g.mem, Thought("Failed to generate search queries"))
                 /\ stack' = return_from_iteration(stack)
                 /\ pc' = PcAfterReturn(stack)
                 /\ UNCHANGED progress
            ELSE /\ memory' = g.mem
                 /\ progress' = IF progress # NoObject
                                THEN progress_update(progress,
                                        [total_queries |-> progress.total_queries + Len(g.ret)])
                                ELSE progress
                 /\ stack' = [stack EXCEPT ![Len(stack)].queries = g.ret, ![Len(stack)].i = 1]
                 /\ pc' = "loop"
    /\ UNCHANGED <<auto_tuner, engine, result, calls>>

\* a plausible slip: the executed query is not counted
count_completed_query_skipped(prog) == prog

\* lines 692-695: the progress update after execute_query has returned
count_completed_query(prog) ==
    IF prog # NoObject
    THEN progress_update(prog, [completed_queries |-> prog.completed_queries + 1])
    ELSE prog

\* one pass of the loop up to line 695: execute_query and the progress update
ExecuteQueryWith(query_answers) ==
    /\ pc = "loop"
    /\ Top.i <= Len(Top.queries)
    /\ \E answers \in query_answers :
        LET Returned(r) ==
                /\ memory' = r.mem
                /\ progress' = count_completed_query(r.progress)
                /\ stack' = [stack EXCEPT ![Len(stack)].result = r.ret]
                /\ calls' = r.calls
        IN  Returned(execute_query(memory, progress, Top.queries[Top.i],
                                   Top.depth, Top.breadth, answers))
    /\ pc' = "decide"
    /\ UNCHANGED <<auto_tuner, engine, result>>

ExecuteQuery ==
    /\ pc = "loop"
    /\ progress.completed_queries < MaxQueries
    /\ ExecuteQueryWith(QueryAnswers)

\* the query gives no reason to go deeper: on to the next query of the level
NoFollowUp ==
    /\ pc = "decide"
    /\ ~bears_follow_up(Top)
    /\ stack' = [stack EXCEPT ![Len(stack)].i = @ + 1, ![Len(stack)].result = NoResult]
    /\ pc' = "loop"
    /\ UNCHANGED <<memory, progress, auto_tuner, engine, result, calls>>

\* lines 698-717: the next level's parameters, its query, and the recursive call
FollowUp ==
    /\ pc = "decide"
    /\ bears_follow_up(Top)
    /\ ~(engine.auto_tune /\ auto_tuner # NoObject /\ time_usage_raises(auto_tuner))
    /\ \E now \in 0..MaxClock :
        LET adj == IF engine.auto_tune
                   THEN adjust_parameters(memory, engine.auto_tune, auto_tuner,
                                          Top.depth - 1, Top.breadth, now)
                   ELSE [mem |-> memory] @@ static_next(Top.depth, Top.breadth)
            next_query == [goal   |-> Top.queries[Top.i].research_goal,
                           follow |-> Take(Top.result.follow_up_questions, 3)]
        IN  /\ memory' = adj.mem
            /\ stack' = call_iteration(stack, Frame(next_query, adj.depth, adj.breadth, Top.i))
    /\ engine' = [engine EXCEPT !.expands = @ + 1]
    /\ pc' = "iter"
    /\ UNCHANGED <<progress, auto_tuner, result, calls>>

\* get_time_usage_fraction divides by a time budget of 0: the ZeroDivisionError
\* leaves every iteration and ResearchEngine.deep_research; api.deep_research
\* catches it
FollowUpRaises ==
    /\ pc = "decide"
    /\ bears_follow_up(Top)
    /\ engine.auto_tune /\ auto_tuner # NoObject /\ time_usage_raises(auto_tuner)
    /\ stack' = <<>>
    /\ engine' = [engine EXCEPT !.run = "raised"]
    /\ result' = DegradedResult("ZeroDivisionError")
    /\ pc' = "done"
    /\ UNCHANGED <<memory, progress, auto_tuner, calls>>

\* the loop is over: execute_research_iteration returns to its caller
IterationEnd ==
    /\ pc = "loop"
    /\ Top.i > Len(Top.queries)
    /\ stack' = return_from_iteration(stack)
    /\ pc' = PcAfterReturn(stack)
    /\ UNCHANGED <<memory, progress, auto_tuner, engine, result, calls>>

\* lines 722-731, and api.deep_research handing the result on
DeepResearchEnd ==
    /\ pc = "finish"
    /\ memory' = add_thought(memory, Thought("Research process completed"))
    /\ engine' = [engine EXCEPT !.run = "returned"]
    /\ result' = [status |-> "returned", error |-> "", value |-> memory']
    /\ pc' = "done"
    /\ UNCHANGED <<progress, auto_tuner, stack, calls>>

Next ==
    \/ ApiCall
    \/ DeepResearchBegin
    \/ IterationBegin
    \/ ExecuteQuery
    \/ NoFollowUp
    \/ FollowUp
    \/ FollowUpRaises
    \/ IterationEnd
    \/ DeepResearchEnd

Spec == Init /\ [][Next]_vars

(***************************************************************************)
(* The run without auto-tuning, to its end: the caller gives a depth and a *)
(* breadth, no run is cut short, and every external call returns, so that  *)
(* a step that can be taken is taken.                                      *)
(***************************************************************************)
StaticDepthArgs == {1, 2, 3}

StaticBreadthArgs == {1, 2}

StaticQueryAnswers ==
    {Answers(Ok(<<"s1">>), Failed, GoodScrape, GoodEval, WithFollowUp),
     Answers(Ok(<<"s1">>), Ok(<<"u1">>), GoodScrape, GoodEval, WithFollowUp)}

StaticApiCall == ApiCallWith({FALSE}, {None})

StaticDeepResearchBegin == DeepResearchBeginWith(StaticDepthArgs, StaticBreadthArgs)

StaticExecuteQuery == ExecuteQueryWith(StaticQueryAnswers)

NextStatic ==
    \/ StaticApiCall
    \/ StaticDeepResearchBegin
    \/ IterationBegin
    \/ StaticExecuteQuery
    \/ NoFollowUp
    \/ FollowUp
    \/ IterationEnd
    \/ DeepResearchEnd

SpecStatic == Init /\ [][NextStatic]_vars /\ WF_vars(NextStatic)

(***************************************************************************)
(* A ResearchMemory on its own, driven by any sequence of calls of its     *)
(* methods.  The log, the contradictions, the evaluations and the map are  *)
(* kept short by the guards.                                               *)
(***************************************************************************)
MaxThoughts == 3        \* longest chain_of_thought
MaxContradictions == 2  \* most contradiction records
MaxEvaluations == 1     \* most source evaluations
MaxMapItems == 1        \* most items in the information map

LearningPool == {LA, LB}

LearningLists == {<<LA, LB>>, <<LB, LB>>, <<LB, LA, LB>>}

UrlPool == {"u1", "u2"}

UrlLists == {<<"u1", "u2">>, <<"u2", "u2">>, <<"u2", "u1", "u2">>}

MapSize(m) ==
    LET RECURSIVE Sum(_)
        Sum(ts) == IF ts = {} THEN 0
                   ELSE LET t == CHOOSE x \in ts : TRUE
                        IN  Len(m[t].consensus) + Len(m[t].contradictions)
                            + Len(m[t].gaps) + Sum(ts \ {t})
    IN  Sum(DOMAIN m)

\* the memory is an object of its own: nothing else changes
RestUnchanged == UNCHANGED <<progress, auto_tuner, engine, stack, pc, result, calls>>

MemAddLearning ==
    /\ \E learning \in LearningPool : memory' = add_learning(memory, learning)
    /\ RestUnchanged

MemAddLearnings ==
    /\ \E new_learnings \in LearningLists : memory' = add_learnings(memory, new_learnings)
    /\ RestUnchanged

MemAddUrl ==
    /\ \E url \in UrlPool : memory' = add_url(memory, url)
    /\ RestUnchanged

MemAddUrls ==
    /\ \E new_urls \in UrlLists : memory' = add_urls(memory, new_urls)
    /\ RestUnchanged

MemAddThought ==
    /\ Len(memory.chain_of_thought) < MaxThoughts
    /\ memory' = add_thought(memory, Thought("a reasoning step"))
    /\ RestUnchanged

MemAddContradiction ==
    /\ Len(memory.chain_of_thought) < MaxThoughts
    /\ Len(memory.contradictions) < MaxContradictions
    /\ \E topic \in {"Performance"}, claims \in {<<LA, LB>>, <<LB, LA>>} :
          memory' = add_contradiction(memory, topic, claims[1], claims[2])
    /\ RestUnchanged

MemAddSourceEvaluation ==
    /\ Len(memory.source_evaluations) < MaxEvaluations
    /\ memory' = add_source_evaluation(memory, Evaluation("u1"))
    /\ RestUnchanged

MemUpdateInformationMap ==
    /\ MapSize(memory.information_map) < MaxMapItems
    /\ \E topic \in {"qubits"}, info_type \in InfoKinds \cup {"sources"},
          content \in {<<"x">>}, isList \in BOOLEAN :
          memory' = update_information_map(memory, topic, info_type, content, isList)
    /\ RestUnchanged

NextMem ==
    \/ MemAddLearning
    \/ MemAddLearnings
    \/ MemAddUrl
    \/ MemAddUrls
    \/ MemAddThought
    \/ MemAddContradiction
    \/ MemAddSourceEvaluation
    \/ MemUpdateInformationMap

SpecMem == Init /\ [][NextMem]_vars

(***************************************************************************)
(* An AutoTuner on its own: it is constructed with any caps, and its two   *)
(* parameter functions are called with any arguments.  result holds the    *)
(* last call: its arguments and what it returned.                          *)
(***************************************************************************)
MaxDepthInput == 3    \* largest current_depth passed to adjust_parameters
MaxBreadthInput == 4  \* largest current_breadth passed to adjust_parameters

DepthCaps == {0, 1, 3}

BreadthCaps == {1, 2, 4}

Qualities == {<<2, 10>>, <<3, 10>>, <<5, 10>>, <<7, 10>>, <<8, 10>>}

TimeFractions == {<<4, 10>>, <<7, 10>>, <<8, 10>>, <<1, 1>>}

\* complexity scores, in hundredths
Scores == {0, 10, 25, 37, 50, 62, 75, 90, 100}

InitTuner ==
    /\ memory = MemoryInit
    /\ progress = NoObject
    /\ auto_tuner \in {AutoTunerInit(max_depth, max_breadth, None) :
                           max_depth \in DepthCaps, max_breadth \in BreadthCaps}
    /\ engine = NoObject
    /\ stack = <<>>
    /\ pc = "idle"
    /\ result = [op |-> "none"]
    /\ calls = NoCalls

TunerUnchanged == UNCHANGED <<memory, progress, auto_tuner, engine, stack, pc, calls>>

TunerDetermineInitialParameters ==
    /\ \E score \in Scores :
          result' = [op |-> "determine_initial_parameters", score |-> score,
                     new |-> determine_initial_parameters(auto_tuner, score)]
    /\ TunerUnchanged

TunerAdjustParameters ==
    /\ \E current_depth \in 0..MaxDepthInput, current_breadth \in 1..MaxBreadthInput,
          info_quality \in Qualities, time_usage_fraction \in TimeFractions :
          result' = [op |-> "adjust_parameters",
                     current_depth |-> current_depth, current_breadth |-> current_breadth,
                     info_quality |-> info_quality,
                     time_usage_fraction |-> time_usage_fraction,
                     new |-> tuner_adjust_parameters(auto_tuner, current_depth, current_breadth,
                                                     info_quality, time_usage_fraction)]
    /\ TunerUnchanged

NextTuner ==
    \/ TunerDetermineInitialParameters
    \/ TunerAdjustParameters

SpecTuner == InitTuner /\ [][NextTuner]_vars

(***************************************************************************)
(* Contradiction detection on its own: learnings are stored in a memory    *)
(* and detect_contradictions is called with any learning.  result holds    *)
(* the last call: its argument and the memory before and after it.         *)
(***************************************************************************)
MaxStored == 2   \* most learnings stored in the memory

LE1 == <<"launched", "march", "2024">>

LE2 == <<"launched", "june", "2026">>

LX == <<"layoff", "plan", "revenue", "growth">>

LY == <<"layoff", "completed", "revenue", "decline">>

DetectPool == {LA, LB, LE1, LE2, LX, LY, PlainContent}

InitDetect ==
    /\ memory = MemoryInit
    /\ progress = NoObject
    /\ auto_tuner = NoObject
    /\ engine = NoObject
    /\ stack = <<>>
    /\ pc = "idle"
    /\ result = [op |-> "none"]
    /\ calls = NoCalls

DetectAddLearning ==
    /\ Len(memory.learnings) < MaxStored
    /\ \E learning \in DetectPool : memory' = add_learning(memory, learning)
    /\ UNCHANGED <<progress, auto_tuner, engine, stack, pc, result, calls>>

DetectContradictions ==
    /\ Len(memory.contradictions) < MaxContradictions
    /\ \E new_learning \in DetectPool :
          /\ memory' = detect_contradictions(memory, new_learning)
          /\ result' = [op |-> "detect_contradictions", new_learning |-> new_learning,
                        before |-> memory, after |-> memory']
    /\ UNCHANGED <<progress, auto_tuner, engine, stack, pc, calls>>

NextDetect ==
    \/ DetectAddLearning
    \/ DetectContradictions

SpecDetect == InitDetect /\ [][NextDetect]_vars

(***************************************************************************)
(* A ContentClassifier on its own: it is constructed with a reference date *)
(* and one of its three functions is called with a text.  result holds the *)
(* last call: the date, the text and what the call returned.               *)
(***************************************************************************)
Filler == "quantum-hardware-technology-conference-annual-report-volume"

TemporalTexts ==
    {<<"upcoming", "conference", "in", "december", "2024">>,
     <<"upcoming", "conference", "in", "december", "2023">>,
     <<"scheduled", "for", "january", "2023">>,
     <<"scheduled", "for", "january", "2025">>,
     <<"scheduled", "january", "2023">>,
     <<"released", "in", "december", "2023">>,
     <<"upcoming", "march", "2024">>,
     <<"scheduled", "for", "march", "2024">>,
     <<"upcoming", "january", "2023", "and", "march", "2030">>,
     <<"upcoming", "january", "2023", "2030">>,
     <<"upcoming", "march", "2030", "scheduled", "for", "january", "2023">>,
     <<"upcoming", "march", "2030", Filler, "scheduled", "for", "january", "2023">>,
     <<"upcoming", "january", "2023", Filler, "scheduled", "for", "january", "2023">>,
     <<"upcoming", "march", "2030", Filler, "upcoming", "january", "2023">>,
     <<"scheduled", "for", "march", "2030", "then", "january", "2023">>,
     <<"scheduled", "for", "january", "or", "march", "2023">>,
     <<"scheduled", "for", "march", "2030", "scheduled", "for", "january", "2023">>}

NumericalTexts ==
    {<<"by", "2035", "reach", "42.75">>,
     <<"by", "2026", "reach", "2">>,
     <<"by", "2034", "reach", "42.75">>,
     <<"by", "2035", "reach", "50">>,
     <<"by", "2035", "or", "2031", "reach", "42.75">>,
     <<"by", "2031", "or", "2035", "reach", "42.75">>,
     <<"in", "2031", "reach", "1.5", "by", "2035", "reach", "42.75">>,
     <<"the", "market", "2035", "42.75">>,
     <<"by", Filler, "2035", "42.75">>}

PhraseTexts ==
    {<<"i", "believe", "it", "could", "be">>,
     <<"i", "believe">>,
     <<"experts", "suggest", "growth", "by", "2030">>,
     <<"it", "is", "projected">>,
     PlainContent}

ClassifierTexts == TemporalTexts \cup NumericalTexts \cup PhraseTexts

ClassifierDates ==
    {[year |-> 2024, month |-> 3, day |-> 15, seconds |-> 0],
     [year |-> 2024, month |-> 3, day |-> 1, seconds |-> 0],
     [year |-> 2024, month |-> 3, day |-> 1, seconds |-> 1],
     [year |-> 2025, month |-> 1, day |-> 1, seconds |-> 0]}

InitClassifier ==
    /\ memory = MemoryInit
    /\ progress = NoObject
    /\ auto_tuner = NoObject
    /\ engine = NoObject
    /\ stack = <<>>
    /\ pc = "idle"
    /\ result = [op |-> "none"]
    /\ calls = NoCalls

ClassifierUnchanged == UNCHANGED <<memory, progress, auto_tuner, engine, stack, pc, calls>>

ClassifyContentType ==
    /\ \E date \in ClassifierDates, text \in ClassifierTexts :
          result' = [op |-> "classify_content_type", date |-> date, text |-> text,
                     ret |-> classify_content_type(text)]
    /\ ClassifierUnchanged

ValidateTemporalConsistency ==
    /\ \E date \in ClassifierDates, text \in ClassifierTexts :
          result' = [op |-> "validate_temporal_consistency", date |-> date, text |-> text,
                     ret |-> validate_temporal_consistency_at(date, text)]
    /\ ClassifierUnchanged

ValidateNumericalReasonableness ==
    /\ \E date \in ClassifierDates, text \in ClassifierTexts :
          result' = [op |-> "validate_numerical_reasonableness", date |-> date, text |-> text,
                     ret |-> validate_numerical_reasonableness_at(date, text)]
    /\ ClassifierUnchanged

NextClassifier ==
    \/ ClassifyContentType
    \/ ValidateTemporalConsistency
    \/ ValidateNumericalReasonableness

SpecClassifier == InitClassifier /\ [][NextClassifier]_vars

(***************************************************************************)
(* A ResearchProgress on its own: it is constructed and update is called   *)
(* with dictionaries whose keys are data attributes of the object or names *)
(* that are no attribute of it.  result holds the last call: the           *)
(* dictionary and the object before and after it.                          *)
(***************************************************************************)
UpdateDicts ==
    {[completed_queries |-> 1],
     [current_depth |-> 1, current_breadth |-> 2],
     [current_query |-> "q1", total_queries |-> 2],
     [current_depth |-> 2, current_breadth |-> 3, total_queries |-> 6,
      completed_queries |-> 2, current_query |-> "q2"],
     [start_time |-> 1],
     [bogus |-> 1],
     [bogus |-> 1, completed_queries |-> 2],
     [elapsed |-> 5, current_query |-> "q2"]}

InitProgress ==
    /\ memory = MemoryInit
    /\ progress \in {ProgressInit(initial_depth, initial_breadth) :
                        initial_depth \in {2, 3}, initial_breadth \in {4}}
    /\ auto_tuner = NoObject
    /\ engine = NoObject
    /\ stack = <<>>
    /\ pc = "idle"
    /\ result = [op |-> "none"]
    /\ calls = NoCalls

ProgressUpdate ==
    /\ \E update_dict \in UpdateDicts :
          /\ progress' = progress_update(progress, update_dict)
          /\ result' = [op |-> "update", update_dict |-> update_dict,
                        before |-> progress, after |-> progress']
    /\ UNCHANGED <<memory, auto_tuner, engine, stack, pc, calls>>

NextProgress == ProgressUpdate

SpecProgress == InitProgress /\ [][NextProgress]_vars

(***************************************************************************)
(* Properties of the run and of the memory.                                *)
(***************************************************************************)
ResultKeys == {"learnings", "visited_urls", "chain_of_thought",
               "information_map", "contradictions", "source_evaluations"}

\* the query of the running frame went through a failure of one of these calls
FailedIn(steps) == calls.failed \cap steps # {}

\* the running frame's query succeeded at depth > 1 and its extraction gave
\* at least one follow-up question
BearsFollowUp ==
    /\ Top.depth > 1
    /\ Top.result.success
    /\ calls.follow_ups > 0

\* C1: whatever the external services do, api.deep_research returns a result
\* with exactly the six keys learnings, visited_urls, chain_of_thought,
\* information_map, contradictions and source_evaluations; on a failure it
\* still returns such a result, whose learnings hold one 'Research error' string.
C1_ResultHasSixKeys ==
    result.status = "returned" =>
        /\ DOMAIN result.value = ResultKeys
        /\ result.error # "" =>
              /\ Len(result.value.learnings) = 1
              /\ result.value.learnings[1][1] = "Research error"

\* C2: ResearchEngine.deep_research never raises: its run ends by returning
\* the snapshot of the memory, whatever the external services answered.
C2_EngineNeverRaises ==
    engine # NoObject =>
        /\ engine.run # "raised"
        /\ pc = "done" => engine.run = "returned" /\ result.value = memory

\* C3 (as stated): a missing LLM_MODEL_NAME at construction reaches the caller
\* as an error and is not turned into a returned result.
C3_ConfigErrorSurfaces ==
    result.error = "KeyError" => result.status = "raised"

\* C3 (amended): a missing LLM_MODEL_NAME makes the construction raise, no run
\* starts, and api.deep_research returns a result whose learnings are the one
\* 'Research error' string and whose visited_urls are empty.
C3_ConfigErrorReturned ==
    result.error = "KeyError" =>
        /\ result.status = "returned"
        /\ pc = "done"
        /\ engine = NoObject /\ stack = <<>>
        /\ result.value.learnings = << <<"Research error", "KeyError">> >>
        /\ result.value.visited_urls = <<>>

C3_Witness ==
    /\ pc = "done"
    /\ result.error = "KeyError"

\* the query of the running frame adds nothing and does not go deeper
BranchStopped ==
    /\ calls.learned = 0
    /\ Top.result.follow_up_questions = <<>>
    /\ ~bears_follow_up(Top)

\* after a stopped query the loop of the same level goes on to its next query
SiblingsContinue ==
    /\ pc' = "loop"
    /\ Len(stack') = Len(stack)
    /\ stack'[Len(stack)].i = Top.i + 1
    /\ stack'[Len(stack)].queries = Top.queries
    /\ engine' = engine

\* C4 (as stated): a failure of any external call of a query (decomposition,
\* search, scrape, source evaluation, extraction) stops that query's branch,
\* records no learnings from it, and the remaining queries of the level run.
C4_AnyFailureStopsBranch ==
    /\ [](pc = "decide" /\ calls.failed # {} => BranchStopped)
    /\ [][pc = "decide" /\ calls.failed # {} => SiblingsContinue]_vars

\* C4 (amended): a failure of the decomposition, the search, the scrape or the
\* extraction of a query stops that query's branch, records no learnings from
\* it, and the loop goes on to the next query of the level; a failure of the
\* source evaluation alone stops nothing.
C4_FailureStopsBranch ==
    /\ [](pc = "decide" /\ FailedIn({"decompose", "search", "scrape", "extract"})
             => BranchStopped)
    /\ [][pc = "decide" /\ FailedIn({"decompose", "search", "scrape", "extract"})
             => SiblingsContinue]_vars

C4_Witness ==
    /\ pc = "loop"
    /\ Len(stack) = 1
    /\ engine.expands = 1
    /\ Top.i = 2 /\ Len(Top.queries) = 3
    /\ Top.depth > 1
    /\ calls.failed = {"extract"}

\* C5: a query whose search step yields no URLs returns success false with the
\* reason "No search results found", makes no scrape and no extraction call,
\* leaves learnings and visited_urls as they were, and starts no recursive call.
C5_EmptySearchStops ==
    /\ [](pc = "decide" /\ calls.urls = 0 =>
             /\ Top.result = QueryResult(FALSE, "No search results found", <<>>, <<>>)
             /\ calls.scrape = 0 /\ calls.evaluate = 0 /\ calls.extract = 0
             /\ calls.learned = 0 /\ calls.visited = 0)
    /\ [][pc = "decide" /\ calls.urls = 0 =>
             /\ engine'.expands = engine.expands
             /\ memory'.learnings = memory.learnings
             /\ memory'.visited_urls = memory.visited_urls]_vars

C5_Witness ==
    /\ pc = "decide"
    /\ calls.urls = 0 /\ calls.search = 1 /\ calls.failed = {}
    /\ Top.depth > 1

\* C6: a run whose initial depth is 1 makes the first expand call and no other,
\* with auto-tuning or without, whatever the extraction returns.
C6_DepthOneNeverRecurses ==
    (progress # NoObject /\ progress.total_depth = 1) =>
        /\ engine.expands <= 1
        /\ Len(stack) <= 1

C6_Witness ==
    /\ pc = "done"
    /\ engine # NoObject
    /\ engine.run = "returned" /\ engine.auto_tune
    /\ progress.total_depth = 1
    /\ calls.follow_ups > 0 /\ calls.failed = {}

\* C7: the queries of a level run one after another and depth first: a nested
\* iteration belongs to the query its caller is waiting on, that query has
\* returned, and a level moves to its next query only as the running frame.
C7_SequentialDepthFirst ==
    /\ [](\A k \in 1..Len(stack) :
             /\ k < Len(stack) =>
                   /\ stack[k].i \in 1..Len(stack[k].queries)
                   /\ stack[k + 1].from = stack[k].i
                   /\ stack[k].result.success
             /\ k = Len(stack) => (stack[k].result # NoResult <=> pc = "decide"))
    /\ [][\A k \in 1..Min(Len(stack), Len(stack')) :
             stack'[k].i # stack[k].i => Len(stack') = k]_vars

C7_Witness ==
    /\ Len(stack) = 2
    /\ pc = "decide"
    /\ stack[1].i = 1 /\ Len(stack[1].queries) = 3

\* C8: every executed query starts exactly one recursive expand call when it
\* succeeded at depth > 1 with at least one follow-up question, and none
\* otherwise.
C8_OneCallPerBearingQuery ==
    [][pc = "decide" =>
          engine'.expands = engine.expands + (IF BearsFollowUp THEN 1 ELSE 0)]_vars

\* C9: learnings and visited_urls never hold a string twice, and inserting a
\* string that is present, alone or in a list, leaves the memory unchanged.
C9_NoDuplicates ==
    /\ NoDup(memory.learnings)
    /\ NoDup(memory.visited_urls)
    /\ \A l \in Range(memory.learnings) :
          /\ add_learning(memory, l) = memory
          /\ add_learnings(memory, <<l, l>>) = memory
    /\ \A u \in Range(memory.visited_urls) :
          /\ add_url(memory, u) = memory
          /\ add_urls(memory, <<u, u>>) = memory

C9_Witness ==
    /\ Len(memory.learnings) = 2
    /\ Len(memory.visited_urls) = 2

\* C10: learnings, visited_urls, chain_of_thought and contradictions only grow
\* at their end during a run: each step keeps the old list as a prefix.
C10_AppendOnly ==
    [][/\ IsPrefix(memory.learnings, memory'.learnings)
       /\ IsPrefix(memory.visited_urls, memory'.visited_urls)
       /\ IsPrefix(memory.chain_of_thought, memory'.chain_of_thought)
       /\ IsPrefix(memory.contradictions, memory'.contradictions)]_vars

C10_Witness ==
    /\ pc = "done"
    /\ Len(memory.learnings) = 2
    /\ Len(memory.visited_urls) = 2
    /\ Len(memory.contradictions) > 0

\* the calls of add_contradiction tried in every state of the memory
ContradictionCalls ==
    {<<topic, claim1, claim2>> : topic \in {"Performance", "Layoff Timeline"},
                                 claim1 \in LearningPool, claim2 \in LearningPool}

\* C11: every add_contradiction call appends exactly one record to
\* contradictions and exactly one thought, naming the topic and both claims, to
\* chain_of_thought, also when the same contradiction is already recorded; the
\* learnings, the URLs, the map and the evaluations stay as they were.
C11_ContradictionAppended ==
    \A c \in ContradictionCalls :
        LET after == add_contradiction(memory, c[1], c[2], c[3])
        IN  /\ after.contradictions =
                   Append(memory.contradictions, Contradiction(c[1], c[2], c[3]))
            /\ Len(after.chain_of_thought) = Len(memory.chain_of_thought) + 1
            /\ IsPrefix(memory.chain_of_thought, after.chain_of_thought)
            /\ after.chain_of_thought[Len(after.chain_of_thought)] =
                   [kind |-> "Contradiction detected in topic " \o c[1],
                    a |-> c[2], b |-> c[3]]
            /\ after.learnings = memory.learnings
            /\ after.visited_urls = memory.visited_urls
            /\ after.information_map = memory.information_map
            /\ after.source_evaluations = memory.source_evaluations

\* the same contradiction is recorded twice
C11_Witness ==
    /\ Len(memory.contradictions) = 2
    /\ memory.contradictions[1] = memory.contradictions[2]
    /\ Len(memory.chain_of_thought) = 2

\* C12: update_information_map with a kind outside consensus, contradictions
\* and gaps is a no-op: the information map, its set of topics included, is
\* after the call what it was before.
C12_UnknownKindIsNoOp ==
    [][\A topic \in {"qubits", "ions"}, isList \in BOOLEAN :
          memory' = update_information_map(memory, topic, "sources", <<"x">>, isList)
             => /\ DOMAIN memory'.information_map = DOMAIN memory.information_map
                /\ memory'.information_map = memory.information_map]_vars

\* the run has read its arguments and started the expansion
Started == engine # NoObject /\ engine.run # "idle"

\* the depth and breadth the expansion started with
StartDepth == progress.total_depth

StartBreadth == progress.total_breadth

\* what the AutoTuner computes for the query of the run
TunerInitial ==
    determine_initial_parameters(auto_tuner, analyze_question_complexity(engine.query))

\* C13 (as stated): the expansion starts with the caller's depth and breadth
\* whenever the caller supplies them; a value not supplied is 2 (depth) or 4
\* (breadth) without auto-tuning and the AutoTuner's initial value with it.
C13_CallerValuesUsed ==
    Started =>
        /\ (stack # <<>> => stack[1].depth = StartDepth /\ stack[1].breadth = StartBreadth)
        /\ engine.depth_arg # None => StartDepth = engine.depth_arg
        /\ engine.breadth_arg # None => StartBreadth = engine.breadth_arg
        /\ (engine.depth_arg = None /\ ~engine.auto_tune) => StartDepth = 2
        /\ (engine.breadth_arg = None /\ ~engine.auto_tune) => StartBreadth = 4
        /\ (engine.depth_arg = None /\ engine.auto_tune) => StartDepth = TunerInitial.depth
        /\ (engine.breadth_arg = None /\ engine.auto_tune)
              => StartBreadth = TunerInitial.breadth

\* C13 (amended): a depth or breadth the caller gives as a non-zero number is
\* used as given.  A value that is None or 0 is replaced: by the AutoTuner's
\* initial value when auto-tuning is on and at least one of the two is None,
\* and by the default 2 (depth) or 4 (breadth) in every other case.
C13_NonZeroValuesUsed ==
    Started =>
        LET tuned == engine.auto_tune /\ (engine.depth_arg = None \/ engine.breadth_arg = None)
        IN  /\ (stack # <<>> => stack[1].depth = StartDepth /\ stack[1].breadth = StartBreadth)
            /\ engine.depth_arg \notin {None, 0} => StartDepth = engine.depth_arg
            /\ engine.breadth_arg \notin {None, 0} => StartBreadth = engine.breadth_arg
            /\ (engine.depth_arg \in {None, 0} /\ tuned) => StartDepth = TunerInitial.depth
            /\ (engine.breadth_arg \in {None, 0} /\ tuned)
                  => StartBreadth = TunerInitial.breadth
            /\ (engine.depth_arg \in {None, 0} /\ ~tuned) => StartDepth = 2
            /\ (engine.breadth_arg \in {None, 0} /\ ~tuned) => StartBreadth = 4

\* auto-tuning fills in the depth alone, next to the caller's breadth
C13_Witness ==
    /\ Started
    /\ pc = "iter" /\ Len(stack) = 1
    /\ engine.auto_tune
    /\ engine.depth_arg = None /\ engine.breadth_arg = 2
    /\ Top.depth = 3 /\ Top.breadth = 2

(***************************************************************************)
(* Properties of the AutoTuner (SpecTuner)                                 *)
(***************************************************************************)
AdjustCalled == result.op = "adjust_parameters"

InitialCalled == result.op = "determine_initial_parameters"

Late == AdjustCalled /\ GreaterThan(result.time_usage_fraction, 7, 10)

LowQualityEarly ==
    AdjustCalled /\ result.info_quality = <<2, 10>> /\ result.time_usage_fraction = <<4, 10>>

HighQualityEarly ==
    AdjustCalled /\ result.info_quality = <<8, 10>> /\ result.time_usage_fraction = <<4, 10>>

\* C14, as stated: for every input and every configured pair of caps,
\* adjust_parameters returns a depth in [1, max_depth] and a breadth in
\* [2, max_breadth].
C14_ResultWithinCaps ==
    AdjustCalled =>
        /\ result.new.depth \in 1..auto_tuner.max_depth
        /\ result.new.breadth \in 2..auto_tuner.max_breadth

\* C14, amended: adjust_parameters returns a depth of at least 1 and a breadth
\* of at least 2; the depth is at most max_depth when max_depth >= 1 and is 1
\* otherwise, the breadth is at most max_breadth when max_breadth >= 2 and is
\* 2 otherwise.
C14_ResultWithinFloorAndCap ==
    AdjustCalled =>
        /\ result.new.depth >= 1
        /\ result.new.breadth >= 2
        /\ IF auto_tuner.max_depth >= 1 THEN result.new.depth <= auto_tuner.max_depth
                                        ELSE result.new.depth = 1
        /\ IF auto_tuner.max_breadth >= 2 THEN result.new.breadth <= auto_tuner.max_breadth
                                          ELSE result.new.breadth = 2

C14_Witness ==
    /\ LowQualityEarly
    /\ auto_tuner.max_depth = 3 /\ auto_tuner.max_breadth = 4
    /\ result.current_depth = 3 /\ result.current_breadth = 4
    /\ result.new = [depth |-> 3, breadth |-> 4]

\* C15, as stated: for every complexity score in [0, 1] and every configured
\* pair of caps, determine_initial_parameters returns a depth in
\* [1, max_depth] and a breadth in [2, max_breadth].
C15_InitialWithinCaps ==
    InitialCalled =>
        /\ result.new.depth \in 1..auto_tuner.max_depth
        /\ result.new.breadth \in 2..auto_tuner.max_breadth

\* C15, amended: determine_initial_parameters returns a depth of at least 1
\* and a breadth of at least 2; the depth is at most max_depth when
\* max_depth >= 1 and is 1 otherwise, the breadth is at most max_breadth when
\* max_breadth >= 2 and is 2 otherwise.
C15_InitialWithinFloorAndCap ==
    InitialCalled =>
        /\ result.new.depth >= 1
        /\ result.new.breadth >= 2
        /\ IF auto_tuner.max_depth >= 1 THEN result.new.depth <= auto_tuner.max_depth
                                        ELSE result.new.depth = 1
        /\ IF auto_tuner.max_breadth >= 2 THEN result.new.breadth <= auto_tuner.max_breadth
                                          ELSE result.new.breadth = 2

C15_Witness ==
    /\ InitialCalled
    /\ result.score = 100
    /\ auto_tuner.max_depth = 3 /\ auto_tuner.max_breadth = 4
    /\ result.new = [depth |-> 3, breadth |-> 4]

\* C16, as stated: when more than 0.7 of the time budget is used,
\* adjust_parameters returns, for every info quality and every input, a depth
\* strictly below the input depth or equal to 1, and a breadth strictly below
\* the input breadth or equal to 2.
C16_LateAlwaysDecreases ==
    Late =>
        /\ result.new.depth < result.current_depth \/ result.new.depth = 1
        /\ result.new.breadth < result.current_breadth \/ result.new.breadth = 2

\* C16, amended: when more than 0.7 of the time budget is used and the info
\* quality is at least 0.3, the depth is strictly below the input depth or
\* equal to 1 and the breadth strictly below the input breadth or equal to 2;
\* when the info quality is below 0.3 the two adjustments cancel and the
\* result is the input clamped by the cap and then raised to the floor.
C16_LateDecreasesUnlessLowQuality ==
    Late =>
        IF LessThan(result.info_quality, 3, 10)
        THEN /\ result.new.depth = Max(1, Min(auto_tuner.max_depth, result.current_depth))
             /\ result.new.breadth = Max(2, Min(auto_tuner.max_breadth, result.current_breadth))
        ELSE /\ result.new.depth < result.current_depth \/ result.new.depth = 1
             /\ result.new.breadth < result.current_breadth \/ result.new.breadth = 2

C16_Witness ==
    /\ Late
    /\ result.info_quality = <<5, 10>>
    /\ auto_tuner.max_depth = 3 /\ auto_tuner.max_breadth = 4
    /\ result.current_depth = 3 /\ result.current_breadth = 4
    /\ result.new = [depth |-> 2, breadth |-> 3]

\* C17, as stated: with info quality 0.2 and 0.4 of the time used,
\* adjust_parameters never returns a breadth below the input breadth unless
\* the result is max_breadth, and never a depth below the input depth unless
\* the result is max_depth.
C17_LowQualityNeverDecreases ==
    LowQualityEarly =>
        /\ result.new.depth >= result.current_depth \/ result.new.depth = auto_tuner.max_depth
        /\ result.new.breadth >= result.current_breadth
              \/ result.new.breadth = auto_tuner.max_breadth

\* C17, amended: with info quality 0.2 and 0.4 of the time used, a tuner with
\* max_depth >= 1 never returns a depth below the input depth unless the
\* result is max_depth, and a tuner with max_breadth >= 2 never returns a
\* breadth below the input breadth unless the result is max_breadth; with a
\* smaller cap the result is the floor, 1 or 2, whatever the input.
C17_LowQualityNeverDecreasesUnderCaps ==
    LowQualityEarly =>
        /\ IF auto_tuner.max_depth >= 1
           THEN result.new.depth >= result.current_depth
                  \/ result.new.depth = auto_tuner.max_depth
           ELSE result.new.depth = 1
        /\ IF auto_tuner.max_breadth >= 2
           THEN result.new.breadth >= result.current_breadth
                  \/ result.new.breadth = auto_tuner.max_breadth
           ELSE result.new.breadth = 2

C17_Witness ==
    /\ LowQualityEarly
    /\ auto_tuner.max_depth = 3 /\ auto_tuner.max_breadth = 4
    /\ result.current_depth = 1 /\ result.current_breadth = 2
    /\ result.new = [depth |-> 2, breadth |-> 4]

\* C18, as stated: with info quality 0.8 and 0.4 of the time used,
\* adjust_parameters never returns a depth or a breadth above the
\* corresponding input.
C18_HighQualityNeverIncreases ==
    HighQualityEarly =>
        /\ result.new.depth <= result.current_depth
        /\ result.new.breadth <= result.current_breadth

\* C18, amended: with info quality 0.8 and 0.4 of the time used,
\* adjust_parameters never returns a depth above the input depth unless the
\* result is the floor 1, and never a breadth above the input breadth unless
\* the result is the floor 2.
C18_HighQualityNeverIncreasesAboveFloor ==
    HighQualityEarly =>
        /\ result.new.depth <= result.current_depth \/ result.new.depth = 1
        /\ result.new.breadth <= result.current_breadth \/ result.new.breadth = 2

C18_Witness ==
    /\ HighQualityEarly
    /\ auto_tuner.max_depth = 3 /\ auto_tuner.max_breadth = 4
    /\ result.current_depth = 3 /\ result.current_breadth = 4
    /\ result.new = [depth |-> 2, breadth |-> 3]

(***************************************************************************)
(* Contradiction detection                                                 *)
(***************************************************************************)
\* the families in which detect_contradictions(new_learning) compares
\* new_learning with the stored learning existing and finds a conflict
ConflictingFamilies(existing, new_learning) ==
    {topic \in Range(Families) :
        /\ ContainsAny(new_learning, FamilyKeywords(topic))
        /\ Conflicts(topic, existing, new_learning)}

\* C19: every learning in memory has been compared with all the learnings
\* stored before it, so each earlier learning that conflicts with it in some
\* family has a Contradiction record (claim1 the earlier, claim2 the later).
C19_EarlierStoredDetected ==
    \A j \in 1..Len(memory.learnings) : \A i \in 1..(j - 1) :
        \A topic \in ConflictingFamilies(memory.learnings[i], memory.learnings[j]) :
            InSeq(Contradiction(topic, memory.learnings[i], memory.learnings[j]),
                  memory.contradictions)

\* both learnings hold a keyword of the family
SharesFamily(topic, existing, new_learning) ==
    /\ ContainsAny(existing, FamilyKeywords(topic))
    /\ ContainsAny(new_learning, FamilyKeywords(topic))

\* one learning is positive and the other negative (Performance), one speaks
\* of a plan and the other of the past (Layoff Timeline), both hold dates and
\* the dates differ (Event Dates)
OppositePolarity(topic, existing, new_learning) ==
    LET Opposed(a_terms, b_terms) ==
            \/ ContainsAny(new_learning, a_terms) /\ ContainsAny(existing, b_terms)
            \/ ContainsAny(new_learning, b_terms) /\ ContainsAny(existing, a_terms)
    IN  CASE topic = "Performance" -> Opposed(positive_terms, negative_terms)
          [] topic = "Layoff Timeline" -> Opposed(plan_terms, past_terms)
          [] topic = "Event Dates" ->
                /\ MonthYearPairs(new_learning) # <<>>
                /\ MonthYearPairs(existing) # <<>>
                /\ MonthYearPairs(new_learning) # MonthYearPairs(existing)

\* one record per stored learning that matches in the family, in stored order
FamilyRecords(topic, stored, new_learning) ==
    LET Matches(existing) == /\ SharesFamily(topic, existing, new_learning)
                             /\ OppositePolarity(topic, existing, new_learning)
        matching == SelectSeq(stored, Matches)
    IN  [i \in 1..Len(matching) |-> Contradiction(topic, matching[i], new_learning)]

ExpectedRecords(stored, new_learning) ==
    FamilyRecords("Performance", stored, new_learning)
    \o FamilyRecords("Event Dates", stored, new_learning)
    \o FamilyRecords("Layoff Timeline", stored, new_learning)

\* C20: detect_contradictions(new) appends, family by family (Performance,
\* Event Dates, Layoff Timeline), exactly one Contradiction for each stored
\* learning that shares the family's keywords with new and is opposed to it,
\* with claim1 the stored learning and claim2 the new one; it appends none
\* when the memory holds no learning or no stored learning matches; and it
\* leaves memory.learnings as it was.
C20_OneRecordPerMatch ==
    result.op = "detect_contradictions" =>
        /\ result.after.contradictions =
              result.before.contradictions
              \o ExpectedRecords(result.before.learnings, result.new_learning)
        /\ result.after.learnings = result.before.learnings
        /\ result.before.learnings = <<>> =>
              result.after.contradictions = result.before.contradictions

C20_Witness ==
    /\ result.op = "detect_contradictions"
    /\ result.before.learnings = <<LA, LX>>
    /\ result.new_learning = LY
    /\ result.before.contradictions = <<>>
    /\ result.after.contradictions =
          <<Contradiction("Performance", LA, LY), Contradiction("Performance", LX, LY),
            Contradiction("Layoff Timeline", LX, LY)>>

(***************************************************************************)
(* The time budget                                                         *)
(***************************************************************************)
\* ResearchEngine.adjust_parameters is about to ask the tuner for the time used
TimeUsageAsked ==
    /\ Started
    /\ pc = "decide"
    /\ bears_follow_up(Top)
    /\ engine.auto_tune /\ auto_tuner # NoObject

\* C21: for every configured time budget, 0 included, and every elapsed time,
\* get_time_usage_fraction returns without raising, and its value lies
\* between 0 and 1.
C21_TimeUsageInUnitInterval ==
    TimeUsageAsked =>
        \A now \in 0..MaxClock :
            LET out == time_usage_outcome(auto_tuner, now)
            IN  /\ ~out.raised
                /\ 0 <= out.value[1] /\ out.value[1] <= out.value[2]

(***************************************************************************)
(* Properties of the ContentClassifier (SpecClassifier)                    *)
(***************************************************************************)
\* the first day of the month of a match is strictly before the date
StrictlyBefore(pair, date) ==
    LET event == <<YearValue[pair[2]], MonthNum(pair[1]), 1, 0>>
        ref   == <<date.year, date.month, date.day, date.seconds>>
    IN  \E k \in 1..4 : event[k] < ref[k] /\ \A h \in 1..(k - 1) : event[h] = ref[h]

UpcomingViolated ==
    \E k \in 1..Len(UpcomingMatches(result.text, 1)) :
        StrictlyBefore(UpcomingMatches(result.text, 1)[k], result.date)

ScheduledViolated ==
    \E k \in 1..Len(ScheduledMatches(result.text, 1)) :
        StrictlyBefore(ScheduledMatches(result.text, 1)[k], result.date)

\* C22: validate_temporal_consistency returns ok = FALSE exactly when some
\* match of the upcoming pattern or of the scheduled pattern names a month
\* whose first day is strictly before the reference date; a violating upcoming
\* match gives the message "past event as upcoming" even when a scheduled
\* match violates too, a violating scheduled match alone gives "should have
\* already occurred", and without a violation the call returns ok = TRUE.
C22_TemporalVerdict ==
    result.op = "validate_temporal_consistency" =>
        /\ ~result.ret.ok <=> (UpcomingViolated \/ ScheduledViolated)
        /\ UpcomingViolated => result.ret.msg = "refers to a past event as upcoming"
        /\ (~UpcomingViolated /\ ScheduledViolated) =>
              result.ret.msg = "refers to a scheduled event that should have already occurred"
        /\ result.ret.ok => result.ret.msg = "No temporal inconsistencies detected"

C22_Witness ==
    /\ result.op = "validate_temporal_consistency"
    /\ result.text = <<"upcoming", "january", "2023", Filler,
                       "scheduled", "for", "january", "2023">>
    /\ result.date = current_date
    /\ UpcomingViolated /\ ScheduledViolated
    /\ result.ret = [ok |-> FALSE, msg |-> "refers to a past event as upcoming"]

\* C23: validate_numerical_reasonableness returns ok = FALSE exactly when some
\* matched projection has a year more than 10 years after the reference year
\* and a number with a decimal point; with the reference year 2024, the year
\* 2035 with 42.75 is flagged, and the year 2034 with 42.75, the year 2035
\* with 50 and the year 2026 with 2 are not.
C23_NumericalVerdict ==
    result.op = "validate_numerical_reasonableness" =>
        LET matches == ProjectionMatches(result.text, 1)
        IN  /\ ~result.ret.ok <=>
                  \E k \in 1..Len(matches) :
                      /\ YearValue[matches[k][1]] > result.date.year + 10
                      /\ HasDecimalPoint(matches[k][2])
            /\ result.date.year = 2024 =>
                  /\ result.text = <<"by", "2035", "reach", "42.75">> => ~result.ret.ok
                  /\ result.text = <<"by", "2034", "reach", "42.75">> => result.ret.ok
                  /\ result.text = <<"by", "2035", "reach", "50">> => result.ret.ok
                  /\ result.text = <<"by", "2026", "reach", "2">> => result.ret.ok

C23_Witness ==
    /\ result.op = "validate_numerical_reasonableness"
    /\ result.date.year = 2024
    /\ result.text = <<"by", "2035", "reach", "42.75">>
    /\ result.ret = [ok |-> FALSE, msg |-> "Unreasonable precision"]

\* C24: classify_content_type returns "speculative" whenever a speculative
\* phrase is present, opinion phrases or not, "opinion" when an opinion phrase
\* and no speculative phrase is present, and "factual" only when neither is.
C24_SpeculativeBeatsOpinion ==
    result.op = "classify_content_type" =>
        LET speculative == \E p \in SpeculativePhrases : Contains(result.text, p)
            opinion     == \E p \in OpinionPhrases : Contains(result.text, p)
        IN  /\ speculative => result.ret = "speculative"
            /\ (~speculative /\ opinion) => result.ret = "opinion"
            /\ result.ret = "factual" <=> (~speculative /\ ~opinion)

C24_Witness ==
    /\ result.op = "classify_content_type"
    /\ result.text = <<"experts", "suggest", "growth", "by", "2030">>
    /\ Contains(result.text, <<"suggest">>) /\ Contains(result.text, <<"by", "2030">>)
    /\ result.ret = "speculative"

(***************************************************************************)
(* Properties of ResearchProgress (SpecProgress)                           *)
(***************************************************************************)
\* C25: update sets exactly the attributes that the dictionary names and the
\* object has, each to the dictionary's value; it leaves every other
\* attribute as it was, and a key that is no attribute of the object is
\* ignored: the object gets no new attribute.
C25_UpdateSetsNamedAttributes ==
    result.op = "update" =>
        /\ DOMAIN result.after = DOMAIN result.before
        /\ \A k \in DOMAIN result.before :
              IF k \in DOMAIN result.update_dict
              THEN result.after[k] = result.update_dict[k]
              ELSE result.after[k] = result.before[k]

C25_Witness ==
    /\ result.op = "update"
    /\ result.update_dict = [bogus |-> 1, completed_queries |-> 2]
    /\ result.before.completed_queries = 1
    /\ result.before.current_query = "q1"
    /\ result.after = [result.before EXCEPT !.completed_queries = 2]

(***************************************************************************)
(* The shape of the recursion                                              *)
(***************************************************************************)
\* max(1, ceil(breadth / 2)), the ceiling being the least n with 2n >= breadth
HalvedBreadth(breadth) ==
    LET ceil == CHOOSE n \in 0..breadth : 2 * n >= breadth /\ 2 * (n - 1) < breadth
    IN  IF ceil > 1 THEN ceil ELSE 1

\* every expand call in progress was made with depth one less than its
\* parent's and with the parent's breadth halved; no more levels are nested
\* than the depth the run started with
StaticShape ==
    /\ \A k \in 1..(Len(stack) - 1) :
          /\ stack[k + 1].depth = stack[k].depth - 1
          /\ stack[k + 1].breadth = HalvedBreadth(stack[k].breadth)
          /\ stack[k + 1].breadth <= stack[k].breadth
    /\ (Started /\ StartDepth >= 1) => Len(stack) <= StartDepth

C27_TunedChildShallower ==
    (Started /\ engine.auto_tune) =>
        \A k \in 1..(Len(stack) - 1) : stack[k + 1].depth < stack[k].depth

(***************************************************************************)
(* The reference function of adjust_parameters                             *)
(***************************************************************************)
\* n / d compared with k / 10, on integers
TenthsBelow(q, k) == q[1] * 10 < k * q[2]

TenthsAbove(q, k) == q[1] * 10 > k * q[2]

ReferenceDeltas(info_quality, time_usage_fraction) ==
    LET base    == CASE TenthsBelow(info_quality, 3) -> <<1, 2>>
                     [] TenthsAbove(info_quality, 7) -> <<-1, -1>>
                     [] OTHER -> <<0, 1>>
        penalty == IF TenthsAbove(time_usage_fraction, 7) THEN <<1, 2>> ELSE <<0, 0>>
    IN  <<base[1] - penalty[1], base[2] - penalty[2]>>

\* x brought under the cap and then up to the floor
Clamped(x, floor, cap) ==
    LET capped == IF x > cap THEN cap ELSE x
    IN  IF capped < floor THEN floor ELSE capped

\* C28: adjust_parameters equals the reference function: deltas (+1, +2) for a
\* quality below 0.3, (-1, -1) for a quality above 0.7 and (0, +1) otherwise,
\* 0.3 and 0.7 themselves included; a further (1, 2) subtracted when more than
\* 0.7 of the time is used, 0.7 itself excluded; the input plus the deltas
\* clamped to [1, max_depth] and [2, max_breadth].
C28_EqualsReference ==
    AdjustCalled =>
        LET deltas == ReferenceDeltas(result.info_quality, result.time_usage_fraction)
        IN  /\ result.new.depth =
                  Clamped(result.current_depth + deltas[1], 1, auto_tuner.max_depth)
            /\ result.new.breadth =
                  Clamped(result.current_breadth + deltas[2], 2, auto_tuner.max_breadth)

C28_Witness ==
    /\ AdjustCalled
    /\ result.info_quality = <<7, 10>> /\ result.time_usage_fraction = <<7, 10>>
    /\ auto_tuner.max_depth = 3 /\ auto_tuner.max_breadth = 4
    /\ result.current_depth = 2 /\ result.current_breadth = 2
    /\ result.new = [depth |-> 2, breadth |-> 3]

(***************************************************************************)
(* The queries of a level                                                  *)
(***************************************************************************)
\* the queries a level executes are those of its list, which is no longer
\* than the level's breadth
QueriesWithinBreadth ==
    \A k \in 1..Len(stack) :
        /\ Len(stack[k].queries) <= stack[k].breadth
        /\ (k < Len(stack) \/ pc = "decide") => stack[k].i <= Len(stack[k].queries)

\* a level whose query generation failed or gave no query ends there: it
\* returns to its caller, no query is executed, no expand call is made,
\* nothing is raised, and the learnings and the visited URLs stay as they were
EmptyLevelEnds ==
    (pc = "iter" /\ pc' # "loop") =>
        /\ stack' = return_from_iteration(stack)
        /\ pc' \in {"loop", "finish"}
        /\ calls' = calls
        /\ engine' = engine
        /\ memory'.learnings = memory.learnings
        /\ memory'.visited_urls = memory.visited_urls

C30_AtMostBreadthLearnings ==
    (engine # NoObject /\ pc = "decide") => calls.learned <= Top.breadth

(***************************************************************************)
(* execute_search on its own: one call on a fresh memory, with the search  *)
(* strings of the decomposition and the provider's answer to each of them. *)
(***************************************************************************)
MaxSearchStrings == 2   \* most search strings of one decomposition

SearchStrings == {"s1", "s2"}

SearchResults ==
    {Failed, Ok(<<>>), Ok(<<"u1", "u2">>), Ok(<<"u2", "u3">>), Ok(<<"u3", "u1", "u3">>)}

Decompositions ==
    {Failed} \cup {Ok(q) : q \in SeqsUpTo(SearchStrings, MaxSearchStrings)}

InitSearch ==
    /\ memory = MemoryInit
    /\ progress = NoObject
    /\ auto_tuner = NoObject
    /\ engine = NoObject
    /\ stack = <<>>
    /\ pc = "idle"
    /\ result = [op |-> "none"]
    /\ calls = NoCalls

ExecuteSearchStored(decomp, search, es) ==
    /\ memory' = es.mem
    /\ result' = [op |-> "execute_search", decomp |-> decomp, search |-> search,
                  ret |-> es.ret, raised |-> es.raised]

ExecuteSearch ==
    /\ result.op = "none"
    /\ \E decomp \in Decompositions, search \in [SearchStrings -> SearchResults] :
          ExecuteSearchStored(decomp, search, execute_search(memory, decomp, search))
    /\ UNCHANGED <<progress, auto_tuner, engine, stack, pc, calls>>

NextSearch == ExecuteSearch

SpecSearch == InitSearch /\ [][NextSearch]_vars

\* the search strings the call searched for, and the URLs the provider returned
\* for them, in the order of the strings and then of each result list
SearchedStrings == IF result.decomp.ok THEN result.decomp.val ELSE <<>>

RECURSIVE ReturnedUrls(_, _)
ReturnedUrls(search, strings) ==
    IF strings = <<>> THEN <<>>
    ELSE (IF search[Head(strings)].ok THEN search[Head(strings)].val ELSE <<>>)
         \o ReturnedUrls(search, Tail(strings))

\* the position of the first occurrence of x in s
FirstAt(s, x) == CHOOSE i \in 1..Len(s) : s[i] = x /\ \A j \in 1..(i - 1) : s[j] # x

\* r lists the elements of s once each, ordered by their first occurrence in s
FirstSeenOrder(r, s) ==
    /\ Range(r) = Range(s)
    /\ NoDup(r)
    /\ \A i, j \in 1..Len(r) : i < j => FirstAt(s, r[i]) < FirstAt(s, r[j])

\* C31: execute_search returns the union of the URLs returned for all the
\* decomposed search strings, no URL twice, in first-seen order.
C31_UnionInFirstSeenOrder ==
    result.op = "execute_search" =>
        FirstSeenOrder(result.ret, ReturnedUrls(result.search, SearchedStrings))

\* some search string of the call failed at the provider
SomeSearchFailed ==
    \E i \in 1..Len(SearchedStrings) : ~result.search[SearchedStrings[i]].ok

\* C32: a provider failure for one search string counts as an empty result
\* list for that string only; the URLs of the other strings are still returned.
C32_FailureIsEmptyList ==
    (result.op = "execute_search" /\ SomeSearchFailed) =>
        /\ ~result.raised
        /\ Range(result.ret) = Range(ReturnedUrls(result.search, SearchedStrings))

(***************************************************************************)
(* execute_query on its own: up to MaxQueryCalls calls on one memory, each *)
(* with the answers of the services.  result keeps the last call, and in   *)
(* scraped200 every URL a scrape has returned with status 200 so far.      *)
(***************************************************************************)
MaxQueryCalls == 2   \* most calls of execute_query on the one memory

\* a learning with a positive and a negative performance term
LS == <<"revenue", "growth", "after", "decline">>

QueryScrapes ==
    {Failed, Ok(<<>>),
     Ok(<<Item("u1", 200, PlainContent)>>),
     Ok(<<Item("u1", 404, <<>>), Item("u2", 200, PlainContent)>>),
     Ok(<<Item("u1", 500, <<>>)>>),
     Ok(<<Item("u3", 200, <<>>)>>)}

QueryExtractions ==
    {Failed, Ok(Extraction(<<LA>>, <<>>)), Ok(Extraction(<<LS>>, <<>>)),
     Ok(Extraction(<<LB, LS>>, <<>>))}

DriverAnswers ==
    {Answers(Ok(<<"s1">>), Ok(<<"u1", "u2">>), scrape, GoodEval, extract) :
        scrape \in QueryScrapes, extract \in QueryExtractions}

\* the URLs a scrape answer returns with status code 200
Scraped200(scrape) ==
    IF scrape.ok
    THEN {scrape.val[i].url : i \in {j \in 1..Len(scrape.val) : scrape.val[j].statusCode = 200}}
    ELSE {}

InitQuery ==
    /\ memory = MemoryInit
    /\ progress = NoObject
    /\ auto_tuner = NoObject
    /\ engine = NoObject
    /\ stack = <<>>
    /\ pc = "idle"
    /\ result = [op |-> "none", n |-> 0, scraped200 |-> {}]
    /\ calls = NoCalls

ExecuteQueryStored(answers, eq) ==
    /\ memory' = eq.mem
    /\ calls' = eq.calls
    /\ result' = [op |-> "execute_query", n |-> result.n + 1,
                  scraped200 |-> result.scraped200 \cup Scraped200(answers.scrape),
                  answers |-> answers, before |-> memory, ret |-> eq.ret]

ExecuteQueryCall ==
    /\ result.n < MaxQueryCalls
    /\ \E answers \in DriverAnswers :
          ExecuteQueryStored(answers,
                             execute_query(memory, NoObject, SerpQuery(1), 1, 2, answers))
    /\ UNCHANGED <<progress, auto_tuner, engine, stack, pc>>

NextQuery == ExecuteQueryCall

SpecQuery == InitQuery /\ [][NextQuery]_vars

\* the scrape of the last call returned an entry with a status other than 200
\* next to a page with status 200 and content
MixedScrape ==
    /\ result.answers.scrape.ok
    /\ \E i \in 1..Len(result.answers.scrape.val) :
          result.answers.scrape.val[i].statusCode # 200
    /\ WithContent(result.answers.scrape.val) # <<>>

StartTimeSet ==
    (engine # NoObject /\ engine.auto_tune /\ engine.expands >= 1) =>
        (auto_tuner # NoObject /\ auto_tuner.start_time # None)

\* the start time is written only by the step from the constructed engine to
\* the first expand call, while it is still unset; no later step of the run
\* touches the tuner
StartTimeWrittenAtBegin ==
    (auto_tuner # NoObject /\ auto_tuner' # auto_tuner) =>
        /\ pc = "constructed" /\ pc' = "iter"
        /\ engine.expands = 0 /\ engine'.expands = 1
        /\ auto_tuner.start_time = None
        /\ auto_tuner' = [auto_tuner EXCEPT !.start_time = 0]

\* C34: within a run the start time of the auto-tuner is written exactly once,
\* before the first expand call and so before any adjust_parameters, and the
\* recursive expansion never modifies it.
C34_StartTimeWrittenOnce == [](StartTimeSet) /\ [][StartTimeWrittenAtBegin]_vars

\* an auto-tuned run with a time budget that has made a recursive expand call
C34_Witness ==
    /\ engine # NoObject /\ engine.auto_tune /\ engine.expands >= 2
    /\ auto_tuner # NoObject
    /\ auto_tuner.time_budget_seconds # None
    /\ auto_tuner.start_time = 0

(***************************************************************************)
(* evaluate_sources on its own: up to MaxPasses passes on one memory, each *)
(* with the lists it is given and the LLM's answer.                        *)
(***************************************************************************)
MaxPasses == 2   \* most evaluation passes on the one memory

PassUrls == {<<>>, <<"u1">>, <<"u1", "u2">>}

PassContents == {<<>>, <<PlainContent>>, <<PlainContent, LA>>}

PassAnswers ==
    {Failed, Ok(<<>>), Ok(<<Evaluation("u1")>>),
     Ok(<<Evaluation("u1"), Evaluation("u2")>>),
     Ok(<<Evaluation("u1"), Evaluation("u1"), Evaluation("u2")>>)}

InitEvaluate ==
    /\ memory = MemoryInit
    /\ progress = NoObject
    /\ auto_tuner = NoObject
    /\ engine = NoObject
    /\ stack = <<>>
    /\ pc = "idle"
    /\ result = [op |-> "none", n |-> 0]
    /\ calls = NoCalls

EvaluateSourcesStored(urls, contents, eval, es) ==
    /\ memory' = es.mem
    /\ result' = [op |-> "evaluate_sources", n |-> result.n + 1, urls |-> urls,
                  contents |-> contents, eval |-> eval, before |-> memory,
                  ret |-> es.ret]

EvaluateSources ==
    /\ result.n < MaxPasses
    /\ \E urls \in PassUrls, contents \in PassContents, eval \in PassAnswers :
          EvaluateSourcesStored(urls, contents, eval,
                                evaluate_sources(memory, urls, contents, eval))
    /\ UNCHANGED <<progress, auto_tuner, engine, stack, pc, calls>>

NextEvaluate == EvaluateSources

SpecEvaluate == InitEvaluate /\ [][NextEvaluate]_vars

\* the last pass was given matching, non-empty lists and its LLM call succeeded
PassEvaluated ==
    /\ result.urls # <<>> /\ result.contents # <<>>
    /\ Len(result.urls) = Len(result.contents)
    /\ result.eval.ok

\* the records the last pass appended
RecordsAppended ==
    SubSeq(memory.source_evaluations, Len(result.before.source_evaluations) + 1,
           Len(memory.source_evaluations))

\* C35 as stated: a pass appends exactly one record per (url, content) pair it
\* was given, and none when it fails or its lists are mismatched or empty.
C35_OneRecordPerPair ==
    result.op = "evaluate_sources" =>
        /\ IsPrefix(result.before.source_evaluations, memory.source_evaluations)
        /\ Len(RecordsAppended) = IF PassEvaluated THEN Len(result.urls) ELSE 0

\* C35, amended: a pass appends exactly the evaluations the LLM returned for
\* it, one record each and in their order, whatever the number of pairs it was
\* given; it appends none when it fails or its lists are mismatched or empty.
C35_OneRecordPerEvaluation ==
    result.op = "evaluate_sources" =>
        /\ IsPrefix(result.before.source_evaluations, memory.source_evaluations)
        /\ RecordsAppended = IF PassEvaluated THEN result.eval.val ELSE <<>>
        /\ result.ret = RecordsAppended

\* two pairs given, one evaluation returned by the LLM, one record appended to
\* the records of an earlier pass
C35_Witness ==
    /\ result.op = "evaluate_sources"
    /\ PassEvaluated
    /\ Len(result.urls) = 2 /\ Len(result.eval.val) = 1
    /\ result.before.source_evaluations # <<>>
    /\ Len(RecordsAppended) = 1

(***************************************************************************)
(* An engine that is used again: after deep_research has returned, the     *)
(* caller that holds the ResearchEngine calls deep_research on it once     *)
(* more.  The engine keeps the memory its constructor made.                *)
(***************************************************************************)
MaxRuns == 2   \* most deep_research calls on one engine

ReuseQueryAnswers ==
    StaticQueryAnswers
    \cup {Answers(Ok(<<"s1">>), Ok(<<"u2">>), Ok(<<Item("u2", 200, PlainContent)>>),
                  Ok(<<Evaluation("u2")>>), Ok(Extraction(<<LB>>, <<>>)))}

\* the number of thoughts of one kind in a log
CountThoughts(chain_of_thought, kind) ==
    Cardinality({n \in 1..Len(chain_of_thought) : chain_of_thought[n].kind = kind})

ReuseApiCall == ApiCallWith({FALSE}, {None})

ReuseDeepResearchBegin == DeepResearchBeginWith({1, 2}, {1})

ReuseExecuteQuery == ExecuteQueryWith(ReuseQueryAnswers)

\* the caller, holding the engine whose deep_research has returned, is about
\* to call deep_research on it again
CallerReuses ==
    /\ pc = "done"
    /\ engine # NoObject /\ engine.run = "returned"
    /\ CountThoughts(memory.chain_of_thought, "Research process completed") < MaxRuns
    /\ pc' = "constructed"
    /\ UNCHANGED <<memory, progress, auto_tuner, engine, stack, result, calls>>

NextReuse ==
    \/ ReuseApiCall
    \/ ReuseDeepResearchBegin
    \/ IterationBegin
    \/ ReuseExecuteQuery
    \/ NoFollowUp
    \/ FollowUp
    \/ IterationEnd
    \/ DeepResearchEnd
    \/ CallerReuses

SpecReuse == Init /\ [][NextReuse]_vars

\* C36: the result of a deep_research run holds only what that run recorded,
\* also when deep_research is called a second time on the same engine: its log
\* has the opening and the closing thought of one run only.
C36_ResultOfThisRunOnly ==
    (pc = "done" /\ result.status = "returned" /\ result.error = "") =>
        /\ CountThoughts(result.value.chain_of_thought, "Starting deep research") = 1
        /\ CountThoughts(result.value.chain_of_thought, "Research process completed") = 1

(***************************************************************************)
(* Contradiction records                                                   *)
(***************************************************************************)
\* a query whose extraction brought no learning that was new to the memory
\* leaves the contradictions as they were
NoNewLearningNoRecord ==
    (pc = "loop" /\ pc' = "decide" /\ memory'.learnings = memory.learnings) =>
        memory'.contradictions = memory.contradictions

\* C37: contradiction detection is applied only to learnings that are new to
\* the memory; an extraction that returns learnings already stored adds no
\* Contradiction record, so repeating it does not grow the list.
C37_OnlyNewLearningsScanned == [][NoNewLearningNoRecord]_vars

\* C38: no Contradiction record has claim1 equal to claim2.
C38_NoSelfContradiction ==
    \A n \in 1..Len(memory.contradictions) :
        memory.contradictions[n].claim1 # memory.contradictions[n].claim2

(***************************************************************************)
(* The counters of the progress                                            *)
(***************************************************************************)
\* never more queries completed than announced, and as many when
\* ResearchEngine.deep_research has returned
CompletedWithinTotal ==
    progress # NoObject =>
        /\ progress.completed_queries <= progress.total_queries
        /\ (pc = "done" /\ engine.run = "returned") =>
              progress.completed_queries = progress.total_queries

\* the step of an executed query, failed or not, counts one; no other step of
\* the run changes the count
OnePerExecutedQuery ==
    (progress # NoObject /\ progress' # NoObject) =>
        progress'.completed_queries =
            progress.completed_queries + (IF pc = "loop" /\ pc' = "decide" THEN 1 ELSE 0)

\* C39: completed_queries <= total_queries in every reachable state of a run,
\* completed_queries grows by exactly one per executed query, successful or
\* failed, and the two counters are equal when deep_research returns.
C39_CompletedFollowsTotal == [](CompletedWithinTotal) /\ [][OnePerExecutedQuery]_vars

\* a run that has returned after two executed queries, the last of them failed
C39_Witness ==
    /\ pc = "done" /\ engine # NoObject /\ engine.run = "returned"
    /\ progress.completed_queries = 2 /\ progress.total_queries = 2
    /\ calls.failed # {}

(***************************************************************************)
(* The depth of the expand calls                                           *)
(***************************************************************************)
\* C40: in a run started with depth >= 1 the depth of every expand call is at
\* least 1 and at most the depth the run started with, and so is
\* progress.current_depth, without and with auto-tuning, whatever the info
\* quality and the time usage are.
C40_DepthWithinInitial ==
    (engine # NoObject /\ engine.run = "running" /\ progress # NoObject) =>
        /\ progress.total_depth >= 1
        /\ progress.current_depth >= 1
        /\ progress.current_depth <= progress.total_depth
        /\ \A k \in 1..Len(stack) :
              stack[k].depth >= 1 /\ stack[k].depth <= progress.total_depth

\* an auto-tuned run whose follow-up level was given the depth of the run's
\* start, the most the adjustment can give
C40_Witness ==
    /\ engine # NoObject /\ engine.run = "running" /\ engine.auto_tune
    /\ Len(stack) = 2
    /\ stack[2].depth = progress.total_depth
    /\ stack[1].depth = progress.total_depth

====
